---- MODULE Spec2Model ----
(***************************************************************************)
(* Widget identity and state reconciliation of streamlit:                  *)
(*   lib/streamlit/widgets.py        WidgetStateManager, coalescing,       *)
(*                                   register_widget, beta_widget_value    *)
(*   lib/streamlit/session.py        SessionState, get_session_state       *)
(*   lib/streamlit/elements/*.py     the widget declaration functions      *)
(*                                                                         *)
(* Python values are tagged records [t, v]: None, bool, int and str are    *)
(* kept apart, and == is PyEq (Python compares True == 1).  A str is       *)
(* modelled by the number its text spells ("1", "2", ...), so str() and    *)
(* json.loads() are real conversions between the int and the str tag.      *)
(***************************************************************************)
EXTENDS Integers, Sequences, FiniteSets, TLC

\* ------------------------------------------------------------------ bounds
MaxVal == 2        \* widget and session values range over 1..MaxVal
MaxLen == 2        \* longest WidgetStates batch the client sends

\* ------------------------------------------------------------ Python values
PyNone == [t |-> "none", v |-> 0]
PyBool(b) == [t |-> "bool", v |-> IF b THEN 1 ELSE 0]
PyInt(n) == [t |-> "int", v |-> n]
PyStr(n) == [t |-> "str", v |-> n]
PyTrue == PyBool(TRUE)
PyFalse == PyBool(FALSE)

\* Python's == on the values above: bool is a subclass of int.
PyEq(a, b) ==
    \/ a = b
    \/ /\ a.t \in {"bool", "int"}
       /\ b.t \in {"bool", "int"}
       /\ a.v = b.v

\* bool(value): None, False, 0 and "" are false.
PyBoolOf(x) == PyBool(x.v # 0)

\* str(value), as text_input applies it to the resolved value.
PyStrOf(x) == IF x.t = "str" THEN x ELSE PyStr(x.v)

\* json.loads of the text of a json_value: PyStr(0) stands for the text
\* "null", which decodes to None; PyStr(n) for the text of the number n >= 1,
\* which decodes to the int n.
JsonLoads(x) == IF x.v = 0 THEN PyNone ELSE PyInt(x.v)

\* Marker of a key that a dict does not hold.
Absent == [t |-> "absent", v |-> 0]

\* User keys: the widget ids and Session State keys the script chooses.
Ids == {"k1", "k2"}

\* key=None, as the script passes it to a declaration.
NoKey == "<None>"

ElementTypes == {"button", "text_input"}
Protos == {"p1", "p2", "p3"}  \* element_proto.SerializeToString()
Labels == {"L1"}

\* element_proto.label where the proto has the field (hasattr), else NoLabel:
\* the payload p1 carries the label L1, the payload p2 has no label field.
NoLabel == "<no label>"
ProtoLabel(element_proto) ==
    CASE element_proto = "p1" -> "L1"
      [] element_proto = "p2" -> NoLabel
      [] element_proto = "p3" -> "L1"

\* str(hash((element_type, element_proto.SerializeToString()))): the table of
\* the hashes of the declarations above, taken to be free of collisions.
HashStr(element_type, element_proto) ==
    CASE element_type = "button" /\ element_proto = "p1" -> "h1"
      [] element_type = "button" /\ element_proto = "p2" -> "h2"
      [] element_type = "text_input" /\ element_proto = "p1" -> "h3"
      [] element_type = "text_input" /\ element_proto = "p2" -> "h4"
      [] element_type = "button" /\ element_proto = "p3" -> "h5"
      [] element_type = "text_input" /\ element_proto = "p3" -> "h6"
      [] element_type = "checkbox" /\ element_proto = "L1" -> "h7"
      [] element_type = "checkbox" /\ element_proto = "L2" -> "h8"

GenIds == {HashStr(et, p) : et \in ElementTypes, p \in Protos}

\* f"internal:text_input:{label}"
InternalTextInputKey(label) ==
    CASE label = "L1" -> "internal:text_input:L1"

InternalKeys == {InternalTextInputKey(l) : l \in Labels}

\* The checkboxes are told apart by their labels, L1 and L2; these are the
\* ids of the two when they are declared without a key.
CheckboxLabels == {"L1", "L2"}
CheckboxIds == {HashStr("checkbox", l) : l \in CheckboxLabels}

\* Every string that is a widget id or a Session State key.
AllIds == Ids \cup GenIds \cup InternalKeys \cup Labels \cup CheckboxIds

\* The keys of the dicts of a SessionState: the strings, and None, under
\* which a declaration without a key reads and writes.
StateKeys == AllIds \cup {NoKey}

Vals == {PyInt(n) : n \in 1..MaxVal}

\* ------------------------------------------------------------ WidgetState
\* A WidgetState proto: its id and the populated member of the oneof "value".
NoState == [id |-> "", kind |-> "none", val |-> PyNone]

Payloads ==
    {<<"trigger_value", PyTrue>>, <<"trigger_value", PyFalse>>}
    \cup {<<"int_value", PyInt(n)>> : n \in 1..MaxVal}
    \cup {<<"json_value", PyStr(n)>> : n \in 0..MaxVal}

WidgetState(id, p) == [id |-> id, kind |-> p[1], val |-> p[2]]

WidgetStateSet == {WidgetState(id, p) : id \in Ids, p \in Payloads}

\* A WidgetStates proto: the repeated field "widgets".  The client builds it
\* from a map keyed by widget id, so that no id occurs twice.
DistinctIds(b) == \A i, j \in 1..Len(b) : b[i].id = b[j].id => i = j

Batches ==
    {b \in UNION {[1..n -> WidgetStateSet] : n \in 0..MaxLen} : DistinctIds(b)}

\* _get_widget_value(state)
GetWidgetValueOf(state) ==
    IF state = NoState THEN PyNone
    ELSE IF state.kind = "json_value" THEN JsonLoads(state.val)
    ELSE state.val

\* --------------------------------------------------------------- coalesce
\* states_by_id, a dict in insertion order: a sequence without repeated ids.
DictPut(d, s) ==
    IF \E i \in 1..Len(d) : d[i].id = s.id
    THEN [i \in 1..Len(d) |-> IF d[i].id = s.id THEN s ELSE d[i]]
    ELSE Append(d, s)

DictGet(d, id) ==
    IF \E i \in 1..Len(d) : d[i].id = id
    THEN d[CHOOSE i \in 1..Len(d) : d[i].id = id]
    ELSE NoState

RECURSIVE CoalesceNewLoop(_, _)
CoalesceNewLoop(new, d) ==
    IF new = <<>> THEN d
    ELSE CoalesceNewLoop(Tail(new), DictPut(d, Head(new)))

\* Variants of OldTriggerWins: the latest state always wins; the kind of the
\* new state is not looked at.
OldTriggerWins_Never(old_state, new_trigger_val) == FALSE

OldTriggerWins_AnyKind(old_state, new_trigger_val) ==
    /\ old_state.kind = "trigger_value"
    /\ old_state.val = PyTrue
    /\ new_trigger_val # NoState

\* The test that lets an old state replace the new one.
OldTriggerWins(old_state, new_trigger_val) ==
    /\ old_state.kind = "trigger_value"
    /\ old_state.val = PyTrue
    /\ new_trigger_val # NoState
    /\ new_trigger_val.kind = "trigger_value"

RECURSIVE CoalesceOldLoop(_, _)
CoalesceOldLoop(old, d) ==
    IF old = <<>> THEN d
    ELSE CoalesceOldLoop(Tail(old),
            IF OldTriggerWins(Head(old), DictGet(d, Head(old).id))
            THEN DictPut(d, Head(old))
            ELSE d)

\* Variant of coalesce_widget_states: the two batches merged as dicts, the
\* ids of the old batch kept.
coalesce_widget_states_Union(old, new) ==
    CoalesceOldLoop(old, CoalesceNewLoop(new, CoalesceNewLoop(old, <<>>)))

\* Variant of coalesce_widget_states: the old batch is dropped.
coalesce_widget_states_NewOnly(old, new) == CoalesceNewLoop(new, <<>>)

coalesce_widget_states(old, new) ==
    CoalesceOldLoop(old, CoalesceNewLoop(new, <<>>))

\* ------------------------------------------------------- callbacks, Args
\* Args(args, kwargs): a captured tuple and dict, or None for either.
PyTuple(n) == [t |-> "tuple", v |-> n]      \* PyTuple(0) is ()
PyDict(n) == [t |-> "dict", v |-> n]        \* PyDict(0) is dict()
Args(args, kwargs) == [args |-> args, kwargs |-> kwargs]
NoArgs == [args |-> Absent, kwargs |-> Absent]

ArgsChoices == {PyNone, PyTuple(1)}
KwargsChoices == {PyNone, PyDict(1)}

Callbacks == {"cb1", "cb2"}
NoCallback == "None"

\* ----------------------------------------------------------- deserializers
\* A deserializer is the function an element hands to the registrar, with the
\* resolved value it closed over.
NoDeserializer == [fn |-> "None", value |-> PyNone]
Identity == [fn |-> "identity", value |-> PyNone]
DeserializeButton == [fn |-> "deserialize_button", value |-> PyNone]
DeserializeTextInput(value) == [fn |-> "deserialize_text_input", value |-> value]
DeserializeColorPicker(value) == [fn |-> "deserialize_color_picker", value |-> value]
DeserializeCheckbox(value) == [fn |-> "deserialize_checkbox", value |-> value]

Deserialize(deserializer, ui_value) ==
    CASE deserializer.fn = "identity" -> ui_value
      [] deserializer.fn = "deserialize_button" ->
            IF ui_value # PyNone THEN ui_value ELSE PyFalse
      [] deserializer.fn = "deserialize_text_input" ->
            IF ui_value # PyNone THEN ui_value ELSE PyStrOf(deserializer.value)
      [] deserializer.fn = "deserialize_color_picker" ->
            PyStrOf(IF ui_value # PyNone THEN ui_value ELSE deserializer.value)
      [] deserializer.fn = "deserialize_checkbox" ->
            PyBoolOf(IF ui_value # PyNone THEN ui_value ELSE deserializer.value)

\* ---------------------------------------------------------------- state
VARIABLES
    old_states,     \* coalesce_widget_states: argument old_states
    new_states,     \* coalesce_widget_states: argument new_states
    coalesced,      \* coalesce_widget_states: the returned WidgetStates
    coalesce_pc,    \* "args" before the call, "done" after it, "idle" unused
    folded,         \* the batches merged into old_states, oldest first
    widget_states,              \* WidgetStateManager._widget_states
    previous_widget_states,     \* WidgetStateManager._previous_widget_states
    widget_callbacks,           \* WidgetStateManager._widget_callbacks
    widget_deserializers,       \* WidgetStateManager._widget_deserializers
    widget_args,                \* WidgetStateManager._widget_args
    session_state,              \* the session's SessionState object, or "None"
    new_state,                  \* SessionState._new_state
    old_state,                  \* SessionState._old_state
    widget_ids_this_run,        \* ReportContext.widget_ids_this_run
    run_pc,         \* where the session is in its rerun cycle
    batch,          \* the WidgetStates of the rerun request being handled
    calls,          \* the callback invocations of the last call_callbacks
    written,        \* per key, the last value written since make_state_old
    registered,     \* the ids whose registration succeeded in the current run
    registered_last_run,    \* the same, of the run before
    overwrote,      \* whether the last make_state_old replaced a committed value
    superseded,     \* whether the last run that ended was superseded
    other,          \* the manager, SessionState and seen ids of a second session
    last_op         \* the last operation: its name, key, exception and result

coalesceVars == <<old_states, new_states, coalesced, coalesce_pc, folded>>
storeVars == <<widget_states, previous_widget_states, widget_callbacks,
               widget_deserializers, widget_args>>
sessionVars == <<session_state, new_state, old_state>>
runVars == <<widget_ids_this_run, run_pc, batch>>
regVars == <<registered, registered_last_run>>
obsVars == <<calls, written, regVars, overwrote, last_op>>

farVars == <<superseded, other>>

vars == <<coalesceVars, storeVars, sessionVars, runVars, obsVars, farVars>>

\* ----------------------------------------------------- WidgetStateManager
EmptyStates == [id \in AllIds |-> NoState]

\* A session's structures as their constructors leave them:
\* WidgetStateManager.__init__, SessionState.__init__, an empty seen set, and
\* no rerun request being handled.
NewSession ==
    [widget_states |-> EmptyStates,
     previous_widget_states |-> EmptyStates,
     new_state |-> [k \in StateKeys |-> Absent],
     old_state |-> [k \in StateKeys |-> Absent],
     widget_ids_this_run |-> {},
     run_pc |-> "idle"]

\* The dict that set_state builds from a WidgetStates: a later entry of the
\* same id replaces an earlier one.
StatesById(states) ==
    [id \in AllIds |->
        IF \E i \in 1..Len(states) : states[i].id = id
        THEN LET last == CHOOSE i \in 1..Len(states) :
                            /\ states[i].id = id
                            /\ \A j \in 1..Len(states) : states[j].id = id => j <= i
             IN states[last]
        ELSE NoState]

\* Variant of get_widget_value: the value of the run before.
get_widget_value_Previous(widget_id) ==
    GetWidgetValueOf(previous_widget_states[widget_id])

get_widget_value(widget_id) == GetWidgetValueOf(widget_states[widget_id])

get_previous_widget_value(widget_id) ==
    GetWidgetValueOf(previous_widget_states[widget_id])

\* Variant of set_state_previous: the generation before is kept.
set_state_previous_Keep(states) == previous_widget_states

\* set_state: the values of _previous_widget_states and _widget_states after it.
set_state_previous(states) == widget_states
set_state_current(states) == StatesById(states)

\* Variant of equivalent_values: the values are compared as they were sent.
equivalent_values_Raw(state) ==
    PyEq(GetWidgetValueOf(state), get_previous_widget_value(state.id))

\* Variant of equivalent_values: a widget without a previous record changed.
equivalent_values_FirstChanged(state) ==
    /\ previous_widget_states[state.id] # NoState
    /\ equivalent_values_Raw(state)

\* equivalent_values(new_state)
equivalent_values(state) ==
    LET old_value == get_previous_widget_value(state.id)
        new_value == GetWidgetValueOf(state)
        deserializer == widget_deserializers[state.id]
    IN IF deserializer # NoDeserializer
       THEN PyEq(Deserialize(deserializer, new_value),
                 Deserialize(deserializer, old_value))
       ELSE PyEq(new_value, old_value)

\* One callback invocation: callback(*args, **kwargs).
Call(id, callback, args, kwargs) ==
    [id |-> id, callback |-> callback, args |-> args, kwargs |-> kwargs]

\* The body of call_callbacks' loop for one new_state: the invocations it makes.
CallbackOf(state) ==
    LET callback == widget_callbacks[state.id]
        arg == widget_args[state.id]
    IN IF callback = NoCallback THEN <<>>
       ELSE IF equivalent_values(state) THEN <<>>
       ELSE IF arg # NoArgs
            THEN <<Call(state.id, callback,
                        IF arg.args # PyNone THEN arg.args ELSE PyTuple(0),
                        IF arg.kwargs # PyNone THEN arg.kwargs ELSE PyDict(0))>>
            ELSE <<Call(state.id, callback, PyTuple(0), PyDict(0))>>

\* Variant of call_callbacks: the entries are taken last to first.
RECURSIVE call_callbacks_Reversed(_)
call_callbacks_Reversed(states) ==
    IF states = <<>> THEN <<>>
    ELSE call_callbacks_Reversed(Tail(states)) \o CallbackOf(Head(states))

\* call_callbacks(new_widget_states): the invocations, in order.
RECURSIVE call_callbacks(_)
call_callbacks(states) ==
    IF states = <<>> THEN <<>>
    ELSE CallbackOf(Head(states)) \o call_callbacks(Tail(states))

\* Variant of reset_triggers: only the triggers that are True are removed.
reset_triggers_TrueOnly ==
    [id \in AllIds |->
        IF widget_states[id] # NoState /\ widget_states[id].val = PyTrue
                /\ widget_states[id].kind = "trigger_value"
        THEN NoState
        ELSE widget_states[id]]

\* Variant of reset_triggers: nothing is removed.
reset_triggers_Keep == widget_states

\* reset_triggers: _widget_states after it.
reset_triggers ==
    [id \in AllIds |->
        IF widget_states[id] # NoState /\ widget_states[id].kind # "trigger_value"
        THEN widget_states[id]
        ELSE NoState]

\* -------------------------------------------------------------- widget ids
\* Variant of GetWidgetId: the id is always the hash.
GetWidgetId_HashOnly(element_type, element_proto, user_key) ==
    HashStr(element_type, element_proto)

\* _get_widget_id(element_type, element_proto, user_key)
GetWidgetId(element_type, element_proto, user_key) ==
    IF user_key # NoKey THEN user_key
    ELSE HashStr(element_type, element_proto)

\* ctx.widget_ids_this_run.add(widget_id): whether the id was added.
\* Variant of WidgetIdAdded: every id is new.
WidgetIdAdded_Always(widget_id) == TRUE

\* Variant of WidgetIdAdded: the ids of the run before count as seen.
WidgetIdAdded_SeenBefore(widget_id) ==
    widget_id \notin widget_ids_this_run \cup registered_last_run

\* What ctx.widget_ids_this_run.add(widget_id) returns.
WidgetIdAdded(widget_id) == widget_id \notin widget_ids_this_run

\* ------------------------------------------------------------- SessionState
EmptyDict == [k \in StateKeys |-> Absent]

KeyError == [t |-> "KeyError", v |-> 0]

\* An AttributeError that a read raised, as the value of the read.
AttributeError == [t |-> "AttributeError", v |-> 0]

\* beta_widget_value(key).  For the key None, _get_widget_id("", None, None)
\* evaluates None.SerializeToString() and raises AttributeError.
beta_widget_value(key) ==
    IF key = NoKey THEN AttributeError
    ELSE LET deserializer == IF widget_deserializers[key] # NoDeserializer
                             THEN widget_deserializers[key]
                             ELSE Identity
             widget_value == get_widget_value(key)
         IN IF widget_value = PyNone THEN PyNone
            ELSE Deserialize(deserializer, widget_value)

\* SessionState.__getitem__(key); a raised KeyError is the value KeyError,
\* and the AttributeError of beta_widget_value passes through.
SessionState_getitem(key) ==
    IF new_state[key] # Absent THEN new_state[key]
    ELSE LET value == beta_widget_value(key)
         IN IF value # PyNone THEN value
            ELSE IF old_state[key] # Absent THEN old_state[key]
            ELSE KeyError

\* Mapping.get(key, default): only KeyError gives the default.
SessionState_get(key, default) ==
    IF SessionState_getitem(key) = KeyError THEN default
    ELSE SessionState_getitem(key)

\* has_var_set(key): key in self, which Mapping decides by __getitem__.
has_var_set(key) == SessionState_getitem(key) # KeyError

\* Variant of is_new_value: any readable key is new.
is_new_value_AnyTier(key) == SessionState_getitem(key) # KeyError

\* Variant of is_new_value: no key counts as written.
is_new_value_Never(key) == FALSE

is_new_value(key) == new_state[key] # Absent

get_new_value(key) == IF new_state[key] # Absent THEN new_state[key] ELSE PyNone

get_old_value(key) == IF old_state[key] # Absent THEN old_state[key] ELSE PyNone

\* widget_values(): the WidgetStateManager's _widget_states, the dict itself.
widget_values == widget_states

\* _get_merged(): {**_old_state, **widgets, **_new_state}.  An entry taken
\* from widgets is the WidgetState, not its value.
SessionState_get_merged ==
    [k \in StateKeys |->
        IF new_state[k] # Absent THEN new_state[k]
        ELSE IF k \in AllIds /\ widget_values[k] # NoState THEN widget_values[k]
        ELSE old_state[k]]

\* __len__ and __iter__ of the merged view.
SessionState_iter == {k \in StateKeys : SessionState_get_merged[k] # Absent}
SessionState_len == Cardinality(SessionState_iter)

\* Variant of WriteRefused: no key is refused.
WriteRefused_Never(key) == FALSE

\* Whether __setitem__ / __setattr__ refuse the key.
WriteRefused(key) == key \in widget_ids_this_run

\* Variant of init_value: the default is always stored.
init_value_Overwrite(key, default_value) == default_value

\* init_value(key, default_value): _new_state[key] after it.
init_value(key, default_value) ==
    IF ~has_var_set(key) THEN default_value ELSE new_state[key]

\* init_values(**kwargs): _new_state after it.  kwargs maps the keys that are
\* passed to their defaults and the others to Absent; has_var_set(key) reads
\* only the entries of key, so the order of the loop does not matter.
init_values(kwargs) ==
    [k \in StateKeys |->
        IF kwargs[k] # Absent THEN init_value(k, kwargs[k]) ELSE new_state[k]]

\* Variant of make_state_old: the written values are dropped.
make_state_old_Discard == old_state

\* Variant of make_state_old: a committed value is kept.
make_state_old_KeepOld ==
    [k \in StateKeys |-> IF old_state[k] # Absent THEN old_state[k] ELSE new_state[k]]

\* make_state_old(): _old_state after it (_new_state is cleared).
make_state_old ==
    [k \in StateKeys |-> IF new_state[k] # Absent THEN new_state[k] ELSE old_state[k]]

\* ------------------------------------------------------------ observation
NoProto == [id |-> "", default |-> PyNone, value |-> PyNone, valueSet |-> FALSE]

\* _build_duplicate_widget_message(widget_func_name, user_key): which of the
\* two texts it is, the widget type and the key it names.
NoMessage == [text |-> "", widget_type |-> "", user_key |-> ""]

\* Variant of build_duplicate_widget_message: one text for both causes.
build_duplicate_widget_message_OneText(widget_func_name, user_key) ==
    [text |-> "multiple identical widgets with the same generated key: pass a unique key argument",
     widget_type |-> widget_func_name, user_key |-> NoKey]

build_duplicate_widget_message(widget_func_name, user_key) ==
    IF user_key # NoKey
    THEN [text |-> "multiple identical widgets with key: make the key argument unique",
          widget_type |-> widget_func_name, user_key |-> user_key]
    ELSE [text |-> "multiple identical widgets with the same generated key: pass a unique key argument",
          widget_type |-> widget_func_name, user_key |-> NoKey]

\* What the last operation was and how it ended: raised is the name of the
\* exception that left it ("" when it returned) and msg its message, ret the
\* value it returned, proto the declaration payload it filled, arg the value
\* argument of a declaration and in_form whether it was made in a form.
Op(op, key, raised, ret) ==
    [op |-> op, key |-> key, raised |-> raised, ret |-> ret,
     warned |-> FALSE, proto |-> NoProto, msg |-> NoMessage, arg |-> PyNone,
     in_form |-> FALSE, session |-> "A"]

\* --------------------------------------------------------- the rerun cycle
\* A rerun request is handled as set_state, call_callbacks, make_state_old,
\* then the run itself with a fresh ReportContext, then reset_triggers.

SetState(states) ==
    /\ run_pc = "idle"
    /\ previous_widget_states' = set_state_previous(states)
    /\ widget_states' = set_state_current(states)
    /\ batch' = states
    /\ calls' = <<>>
    /\ run_pc' = "set_state"
    /\ last_op' = Op("set_state", NoKey, "", PyNone)
    /\ UNCHANGED <<coalesceVars, farVars, widget_callbacks, widget_deserializers,
                   widget_args, sessionVars, widget_ids_this_run, written>>
    /\ UNCHANGED <<regVars, overwrote>>

CallCallbacks ==
    /\ run_pc = "set_state"
    /\ calls' = call_callbacks(batch)
    /\ batch' = <<>>
    /\ run_pc' = "callbacks"
    /\ last_op' = Op("call_callbacks", NoKey, "", PyNone)
    /\ UNCHANGED <<coalesceVars, farVars, storeVars, sessionVars, widget_ids_this_run,
                   written>>
    /\ UNCHANGED <<regVars, overwrote>>

MakeStateOld ==
    /\ run_pc = "callbacks"
    /\ IF session_state = "None"
       THEN UNCHANGED <<new_state, old_state>>
       ELSE /\ old_state' = make_state_old
            /\ new_state' = EmptyDict
    /\ written' = EmptyDict
    /\ overwrote' = /\ session_state # "None"
                    /\ \E k \in StateKeys : /\ new_state[k] # Absent
                                         /\ old_state[k] # Absent
                                         /\ old_state[k] # new_state[k]
    /\ run_pc' = "promoted"
    /\ last_op' = Op("make_state_old", NoKey, "", PyNone)
    /\ UNCHANGED <<coalesceVars, farVars, storeVars, session_state, widget_ids_this_run,
                   batch, calls>>
    /\ UNCHANGED regVars

\* The seen-id set of the ReportContext a run starts with.
NewWidgetIdsThisRun == {}

RunStart ==
    /\ run_pc = "promoted"
    /\ widget_ids_this_run' = NewWidgetIdsThisRun
    /\ registered_last_run' = registered
    /\ registered' = {}
    /\ run_pc' = "running"
    /\ last_op' = Op("run", NoKey, "", PyNone)
    /\ UNCHANGED <<coalesceVars, farVars, storeVars, sessionVars, batch, calls, written,
                   overwrote>>

RunEnd ==
    /\ run_pc = "running"
    /\ widget_states' = reset_triggers
    /\ run_pc' = "idle"
    /\ superseded' = FALSE
    /\ last_op' = Op("reset_triggers", NoKey, "", PyNone)
    /\ UNCHANGED <<coalesceVars, other, previous_widget_states, widget_callbacks,
                   widget_deserializers, widget_args, sessionVars,
                   widget_ids_this_run, batch, calls, written>>
    /\ UNCHANGED <<regVars, overwrote>>

\* The run is superseded by a newer rerun request: it stops where it is,
\* without reset_triggers.
Supersede ==
    /\ run_pc = "running"
    /\ run_pc' = "idle"
    /\ superseded' = TRUE
    /\ last_op' = Op("superseded", NoKey, "", PyNone)
    /\ UNCHANGED <<coalesceVars, other, storeVars, sessionVars,
                   widget_ids_this_run, batch, calls, written>>
    /\ UNCHANGED <<regVars, overwrote>>

\* ------------------------------------------------- WidgetStateManager calls
\* set_state, reset_triggers and cull_nonexistent called on the manager
\* between two rerun requests.
SetStateCall(states) ==
    /\ run_pc = "idle"
    /\ previous_widget_states' = set_state_previous(states)
    /\ widget_states' = set_state_current(states)
    /\ batch' = states
    /\ last_op' = Op("set_state", NoKey, "", PyNone)
    /\ UNCHANGED <<coalesceVars, farVars, widget_callbacks, widget_deserializers,
                   widget_args, sessionVars, widget_ids_this_run, run_pc,
                   calls, written>>
    /\ UNCHANGED <<regVars, overwrote>>

ResetTriggersCall ==
    /\ run_pc = "idle"
    /\ widget_states' = reset_triggers
    /\ last_op' = Op("reset_triggers", NoKey, "", PyNone)
    /\ UNCHANGED <<coalesceVars, farVars, previous_widget_states, widget_callbacks,
                   widget_deserializers, widget_args, sessionVars, runVars,
                   calls, written>>
    /\ UNCHANGED <<regVars, overwrote>>

\* cull_nonexistent(widget_ids): line 232 reads self._state, an attribute
\* that __init__ (136-141) never sets, so the call ends in AttributeError
\* before anything is assigned.
CullNonexistent(widget_ids) ==
    /\ run_pc = "idle"
    /\ last_op' = Op("cull_nonexistent", NoKey, "AttributeError", PyNone)
    /\ UNCHANGED <<coalesceVars, farVars, storeVars, sessionVars, runVars, calls,
                   written>>
    /\ UNCHANGED <<regVars, overwrote>>
add_callback(widget_id, deserializer, callback, args, kwargs) ==
    /\ widget_callbacks' = [widget_callbacks EXCEPT ![widget_id] = callback]
    /\ widget_deserializers' =
            [widget_deserializers EXCEPT ![widget_id] = deserializer]
    /\ widget_args' = [widget_args EXCEPT ![widget_id] = Args(args, kwargs)]

\* Variant of add_deserializer: the registration replaces the callback too.
add_deserializer_DropsCallback(widget_id, deserializer) ==
    /\ widget_deserializers' =
            [widget_deserializers EXCEPT ![widget_id] = deserializer]
    /\ widget_callbacks' = [widget_callbacks EXCEPT ![widget_id] = NoCallback]
    /\ UNCHANGED widget_args

add_deserializer(widget_id, deserializer) ==
    /\ widget_deserializers' =
            [widget_deserializers EXCEPT ![widget_id] = deserializer]
    /\ UNCHANGED <<widget_callbacks, widget_args>>

AddCallback(widget_id, deserializer, callback, args, kwargs) ==
    /\ run_pc = "running"
    /\ add_callback(widget_id, deserializer, callback, args, kwargs)
    /\ last_op' = Op("add_callback", widget_id, "", PyNone)
    /\ UNCHANGED <<coalesceVars, farVars, widget_states, previous_widget_states,
                   sessionVars, runVars, calls, written>>
    /\ UNCHANGED <<regVars, overwrote>>

AddDeserializer(widget_id, deserializer) ==
    /\ run_pc = "running"
    /\ add_deserializer(widget_id, deserializer)
    /\ last_op' = Op("add_deserializer", widget_id, "", PyNone)
    /\ UNCHANGED <<coalesceVars, farVars, widget_states, previous_widget_states,
                   sessionVars, runVars, calls, written>>
    /\ UNCHANGED <<regVars, overwrote>>

ClearCallbacks ==
    /\ run_pc = "running"
    /\ widget_callbacks' = [id \in AllIds |-> NoCallback]
    /\ last_op' = Op("clear_callbacks", NoKey, "", PyNone)
    /\ UNCHANGED <<coalesceVars, farVars, widget_states, previous_widget_states,
                   widget_deserializers, widget_args, sessionVars, runVars,
                   calls, written>>
    /\ UNCHANGED <<regVars, overwrote>>

\* -------------------------------------------------------- report context
\* report_thread.get_report_ctx(): None when the script runs as a bare Python
\* script and not in a ReportThread.
get_report_ctx == IF run_pc = "bare" THEN "None" ELSE "ReportContext"

\* Variant of EarlyOut: the context is taken to exist.
EarlyOut_Never(ctx) == FALSE

\* if ctx is None: the early-out of register_widget.
EarlyOut(ctx) == ctx = "None"

\* ------------------------------------------------- widgets.register_widget
RegisterWidget(element_type, element_proto, user_key) ==
    /\ run_pc \in {"running", "bare"}
    /\ LET widget_id == GetWidgetId(element_type, element_proto, user_key)
           proto == [NoProto EXCEPT !.id = widget_id]
       IN IF EarlyOut(get_report_ctx)
          THEN /\ last_op' = [Op("register_widget", widget_id, "", PyNone)
                                EXCEPT !.proto = proto]
               /\ UNCHANGED <<widget_ids_this_run, registered>>
          ELSE IF ~WidgetIdAdded(widget_id)
          THEN /\ last_op' = [Op("register_widget", widget_id,
                                 "DuplicateWidgetID", PyNone)
                                EXCEPT !.proto = proto,
                                       !.msg = build_duplicate_widget_message(
                                                    element_type, user_key)]
               /\ UNCHANGED <<widget_ids_this_run, registered>>
          ELSE /\ widget_ids_this_run' = widget_ids_this_run \cup {widget_id}
               /\ registered' = registered \cup {widget_id}
               /\ last_op' = [Op("register_widget", widget_id, "",
                                 get_widget_value(widget_id))
                                EXCEPT !.proto = proto]
    /\ UNCHANGED <<coalesceVars, farVars, storeVars, sessionVars, run_pc, batch, calls,
                   written, registered_last_run, overwrote>>

\* ------------------------------------------- elements.utils.register_widget
\* The key that names the widget: the user key, else the label of the proto.
UtilsKey(element_proto, user_key) ==
    IF user_key # NoKey THEN user_key
    ELSE IF ProtoLabel(element_proto) # NoLabel THEN ProtoLabel(element_proto)
    ELSE NoKey

\* register_widget(element_type, element_proto, user_key,
\* on_change_handler=, deserializer=) of elements/utils.py.  WidgetStateManager
\* has no add_signal, so that the call of line 157 raises AttributeError, after
\* the id and the callback or deserializer have been stored.
\* Variant of duplicate_bookkeeping: the callback or deserializer is stored
\* before the id is tested.
duplicate_bookkeeping_Stored(widget_id, deserializer, on_change_handler) ==
    IF on_change_handler # NoCallback
    THEN add_callback(widget_id, deserializer, on_change_handler, PyNone, PyNone)
    ELSE add_deserializer(widget_id, deserializer)

\* What the registrar has stored when it raises DuplicateWidgetID: the raise
\* of line 148 comes before add_callback and add_deserializer.
duplicate_bookkeeping(widget_id, deserializer, on_change_handler) ==
    UNCHANGED <<widget_callbacks, widget_deserializers, widget_args>>

UtilsRegisterWidget(element_type, element_proto, user_key, on_change_handler, deserializer) ==
    /\ run_pc \in {"running", "bare"}
    /\ LET key == UtilsKey(element_proto, user_key)
           widget_id == GetWidgetId(element_type, element_proto, key)
           proto == [NoProto EXCEPT !.id = widget_id]
       IN IF EarlyOut(get_report_ctx)
          THEN /\ last_op' = [Op("utils.register_widget", widget_id, "",
                                 Deserialize(deserializer, PyNone))
                                EXCEPT !.proto = proto]
               /\ UNCHANGED <<widget_ids_this_run, registered, widget_callbacks,
                              widget_deserializers, widget_args>>
          ELSE IF ~WidgetIdAdded(widget_id)
          THEN /\ last_op' = [Op("utils.register_widget", widget_id,
                                 "DuplicateWidgetID", PyNone)
                                EXCEPT !.proto = proto,
                                       !.msg = build_duplicate_widget_message(
                                                    element_type, user_key)]
               /\ UNCHANGED <<widget_ids_this_run, registered>>
               /\ duplicate_bookkeeping(widget_id, deserializer,
                                        on_change_handler)
          ELSE /\ widget_ids_this_run' = widget_ids_this_run \cup {widget_id}
               /\ registered' = registered \cup {widget_id}
               /\ IF on_change_handler # NoCallback
                  THEN add_callback(widget_id, deserializer, on_change_handler,
                                    PyNone, PyNone)
                  ELSE add_deserializer(widget_id, deserializer)
               /\ last_op' =
                    IF key # NoKey
                    THEN [Op("utils.register_widget", widget_id,
                             "AttributeError", PyNone) EXCEPT !.proto = proto]
                    ELSE [Op("utils.register_widget", widget_id, "",
                             Deserialize(deserializer, get_widget_value(widget_id)))
                            EXCEPT !.proto = proto]
    /\ UNCHANGED <<coalesceVars, farVars, widget_states, previous_widget_states,
                   sessionVars, run_pc, batch, calls, written,
                   registered_last_run, overwrote>>

\* ------------------------------------------------------ SessionState calls
\* get_current_session(): the session of the context, RuntimeError without
\* a context.
get_current_session ==
    IF get_report_ctx = "None" THEN "RuntimeError" ELSE "ReportSession"

\* get_session_state(**kwargs).  The session answers get_session_state()
\* with "None" until initialize_session_state; a new SessionState starts
\* with both dicts empty, which is what the variables hold while it is "None".
GetSessionState(kwargs) ==
    /\ run_pc = "running"
    /\ new_state' = init_values(kwargs)
    /\ session_state' = "SessionState"
    /\ written' = [k \in StateKeys |->
                      IF kwargs[k] # Absent /\ ~has_var_set(k)
                      THEN kwargs[k] ELSE written[k]]
    /\ last_op' = Op("get_session_state", NoKey, "", PyNone)
    /\ UNCHANGED <<coalesceVars, farVars, storeVars, old_state, runVars, calls>>
    /\ UNCHANGED <<regVars, overwrote>>

\* session_state[key] = value
SetItem(key, value) ==
    /\ run_pc = "running"
    /\ session_state # "None"
    /\ IF WriteRefused(key)
       THEN /\ last_op' = Op("setitem", key, "StreamlitAPIException", PyNone)
            /\ UNCHANGED <<new_state, written>>
       ELSE /\ new_state' = [new_state EXCEPT ![key] = value]
            /\ written' = [written EXCEPT ![key] = value]
            /\ last_op' = Op("setitem", key, "", PyNone)
    /\ UNCHANGED <<coalesceVars, farVars, storeVars, session_state, old_state, runVars,
                   calls>>
    /\ UNCHANGED <<regVars, overwrote>>

\* session_state[key] = value in a callback that call_callbacks has invoked,
\* before make_state_old; the context is still the one of the run before.
CallbackSetItem(key, value) ==
    /\ run_pc = "callbacks"
    /\ calls # <<>>
    /\ session_state # "None"
    /\ IF WriteRefused(key)
       THEN /\ last_op' = Op("callback setitem", key, "StreamlitAPIException", PyNone)
            /\ UNCHANGED <<new_state, written>>
       ELSE /\ new_state' = [new_state EXCEPT ![key] = value]
            /\ written' = [written EXCEPT ![key] = value]
            /\ last_op' = Op("callback setitem", key, "", PyNone)
    /\ UNCHANGED <<coalesceVars, farVars, storeVars, session_state, old_state, runVars,
                   calls>>
    /\ UNCHANGED <<regVars, overwrote>>

\* session_state.key = value.  The names _new_state and _old_state are the
\* object's own attributes and go to the base method.
SetAttr(key, value) ==
    /\ run_pc = "running"
    /\ session_state # "None"
    /\ IF key \in {"_new_state", "_old_state"}
       THEN /\ new_state' = IF key = "_new_state" THEN value ELSE new_state
            /\ old_state' = IF key = "_old_state" THEN value ELSE old_state
            /\ last_op' = Op("setattr", key, "", PyNone)
            /\ UNCHANGED written
       ELSE /\ IF WriteRefused(key)
               THEN /\ last_op' = Op("setattr", key, "StreamlitAPIException",
                                     PyNone)
                    /\ UNCHANGED <<new_state, written>>
               ELSE /\ new_state' = [new_state EXCEPT ![key] = value]
                    /\ written' = [written EXCEPT ![key] = value]
                    /\ last_op' = Op("setattr", key, "", PyNone)
            /\ UNCHANGED old_state
    /\ UNCHANGED <<coalesceVars, farVars, storeVars, session_state, runVars, calls>>
    /\ UNCHANGED <<regVars, overwrote>>

\* del session_state[key]: del _new_state[key], then del _old_state[key];
\* either raises KeyError when the dict does not hold the key.
DelItem(key) ==
    /\ run_pc = "running"
    /\ session_state # "None"
    /\ IF new_state[key] = Absent
       THEN /\ last_op' = Op("delitem", key, "KeyError", PyNone)
            /\ UNCHANGED <<new_state, old_state, written>>
       ELSE /\ new_state' = [new_state EXCEPT ![key] = Absent]
            /\ written' = [written EXCEPT ![key] = Absent]
            /\ IF old_state[key] = Absent
               THEN /\ last_op' = Op("delitem", key, "KeyError", PyNone)
                    /\ UNCHANGED old_state
               ELSE /\ old_state' = [old_state EXCEPT ![key] = Absent]
                    /\ last_op' = Op("delitem", key, "", PyNone)
    /\ UNCHANGED <<coalesceVars, farVars, storeVars, session_state, runVars, calls>>
    /\ UNCHANGED <<regVars, overwrote>>

\* ------------------------------------------------- callbacks inside a form
\* Variant of callback_in_form: no test of the form scope.
callback_in_form_Never(in_form, on_change) == FALSE

\* The test the declarations start with: streamlit._is_running_with_streamlit
\* and is_in_form(self.dg) and on_change is not None.
callback_in_form(in_form, on_change) ==
    run_pc = "running" /\ in_form /\ on_change # NoCallback

\* ------------------------------------------------------------- text_input
TextInputTypes == {"default", "password", "other"}

\* The strings a caller passes as value.
TextValues == {PyStr(n) : n \in 1..MaxVal}

\* Variant of text_input_value: the caller's value before Session State's.
text_input_value_CallerWins(key, value, in_form) ==
    IF value # PyNone THEN value
    ELSE IF SessionState_get(key, PyNone) # PyNone
    THEN SessionState_get(key, PyNone)
    ELSE PyStr(0)

\* Variant of text_input_value: in a form the store's value is not looked at.
text_input_value_NoBuffer(key, value, in_form) ==
    IF in_form
    THEN IF value = PyNone THEN PyStr(0) ELSE value
    ELSE LET v == SessionState_get(key, PyNone)
         IN IF v = PyNone
            THEN (IF value = PyNone THEN PyStr(0) ELSE value)
            ELSE v

\* The value text_input resolves (lines 96-110).
text_input_value(key, value, in_form) ==
    IF in_form
    THEN LET v == beta_widget_value(key)
         IN IF v # PyNone THEN v
            ELSE IF value = PyNone THEN PyStr(0) ELSE value
    ELSE LET v == SessionState_get(key, PyNone)
         IN IF v = PyNone
            THEN (IF value = PyNone THEN PyStr(0) ELSE value)
            ELSE v

\* The registrar the declarations call: register_widget(element_type,
\* element_proto, user_key=, on_change_handler=, args=, kwargs=,
\* deserializer=).  Its store bookkeeping:
register_bookkeeping(widget_id, deserializer, on_change_handler, args, kwargs) ==
    IF on_change_handler # NoCallback
    THEN add_callback(widget_id, deserializer, on_change_handler, args, kwargs)
    ELSE add_deserializer(widget_id, deserializer)

TextInput(label, value0, key0, type, on_change, args, kwargs, in_form) ==
    /\ run_pc \in {"running", "bare"}
    /\ LET key == IF key0 = NoKey THEN InternalTextInputKey(label) ELSE key0
           force_set_value == is_new_value(key) /\ ~in_form
           warned == /\ value0 # PyNone
                     /\ is_new_value(key)
                     /\ beta_widget_value(key) = PyNone
           value == text_input_value(key, value0, in_form)
           widget_id == GetWidgetId("text_input", label, key)
           proto == [id |-> widget_id,
                     default |-> PyStrOf(value),
                     value |-> IF force_set_value THEN value ELSE PyNone,
                     valueSet |-> force_set_value]
           raise(exc) == [Op("text_input", key, exc, PyNone)
                            EXCEPT !.warned = warned]
       IN IF callback_in_form(in_form, on_change)
          THEN \* line 79, before get_session_state()
               /\ last_op' = Op("text_input", key, "StreamlitAPIException", PyNone)
               /\ UNCHANGED <<sessionVars, storeVars, widget_ids_this_run,
                              written, registered>>
          ELSE IF get_current_session = "RuntimeError"
          THEN \* line 84: get_session_state() finds no session
               /\ last_op' = Op("text_input", key, "RuntimeError", PyNone)
               /\ UNCHANGED <<sessionVars, storeVars, widget_ids_this_run,
                              written, registered>>
          ELSE /\ session_state' = "SessionState"
               /\ UNCHANGED <<old_state, widget_states, previous_widget_states>>
               /\ IF WriteRefused(key)
                  THEN \* line 112: state[key] = value raises
                       /\ last_op' = raise("StreamlitAPIException")
                       /\ UNCHANGED <<new_state, written, widget_callbacks,
                                      widget_deserializers, widget_args,
                                      widget_ids_this_run, registered>>
                  ELSE /\ new_state' = [new_state EXCEPT ![key] = value]
                       /\ written' = [written EXCEPT ![key] = value]
                       /\ IF type \notin {"default", "password"}
                          THEN \* line 129
                               /\ last_op' = raise("StreamlitAPIException")
                               /\ UNCHANGED <<widget_callbacks,
                                              widget_deserializers, widget_args,
                                              widget_ids_this_run, registered>>
                          ELSE IF ~WidgetIdAdded(widget_id)
                          THEN /\ last_op' = raise("DuplicateWidgetID")
                               /\ UNCHANGED <<widget_callbacks,
                                              widget_deserializers, widget_args,
                                              widget_ids_this_run, registered>>
                          ELSE /\ widget_ids_this_run' =
                                      widget_ids_this_run \cup {widget_id}
                               /\ registered' = registered \cup {widget_id}
                               /\ register_bookkeeping(widget_id,
                                      DeserializeTextInput(value), on_change,
                                      args, kwargs)
                               /\ last_op' = [Op("text_input", key, "", value)
                                                EXCEPT !.warned = warned,
                                                       !.proto = proto,
                                                       !.arg = value0,
                                                       !.in_form = in_form]
    /\ UNCHANGED <<coalesceVars, farVars, run_pc, batch, calls, registered_last_run,
                   overwrote>>

\* ---------------------------------------------------------------- checkbox
\* The value checkbox resolves (lines 77-84), before bool().
checkbox_value(key, value) ==
    LET v == IF value = PyNone THEN SessionState_get(key, PyNone) ELSE value
    IN IF v = PyNone THEN PyFalse ELSE v

\* The value radio resolves from value (options[index] when an index is
\* given), with options[0] as the default (lines 93-99).
radio_value(key, value, options0) ==
    LET v == IF value = PyNone THEN SessionState_get(key, PyNone) ELSE value
    IN IF v = PyNone THEN options0 ELSE v

\* The value color_picker resolves, with "#000000" as the default.
color_picker_value(key, value, black) ==
    LET v == IF value = PyNone THEN SessionState_get(key, PyNone) ELSE value
    IN IF v = PyNone THEN black ELSE v

\* CheckboxMixin.checkbox, declared with a key.
Checkbox(label, value0, key, on_change, args, kwargs, in_form) ==
    /\ run_pc \in {"running", "bare"}
    /\ LET force_set_value == value0 # PyNone \/ is_new_value(key)
           resolved == checkbox_value(key, value0)
           value == PyBoolOf(resolved)
           widget_id == GetWidgetId("checkbox", label, key)
           proto == [id |-> widget_id,
                     default |-> value,
                     value |-> IF force_set_value THEN value ELSE PyNone,
                     valueSet |-> force_set_value]
           raise(exc) == [Op("checkbox", key, exc, PyNone) EXCEPT !.arg = value0]
       IN IF callback_in_form(in_form, on_change)
          THEN \* line 72, before get_session_state()
               /\ last_op' = raise("StreamlitAPIException")
               /\ UNCHANGED <<sessionVars, storeVars, widget_ids_this_run,
                              written, registered>>
          ELSE IF get_current_session = "RuntimeError"
          THEN \* line 74: get_session_state() finds no session
               /\ last_op' = raise("RuntimeError")
               /\ UNCHANGED <<sessionVars, storeVars, widget_ids_this_run,
                              written, registered>>
          ELSE IF resolved = AttributeError
          THEN \* line 79: state.get(key, None) raises
               /\ session_state' = "SessionState"
               /\ last_op' = raise("AttributeError")
               /\ UNCHANGED <<new_state, old_state, storeVars,
                              widget_ids_this_run, written, registered>>
          ELSE /\ session_state' = "SessionState"
               /\ UNCHANGED <<old_state, widget_states, previous_widget_states>>
               /\ IF WriteRefused(key)
                  THEN \* line 84: state[key] = value raises
                       /\ last_op' = raise("StreamlitAPIException")
                       /\ UNCHANGED <<new_state, written, widget_callbacks,
                                      widget_deserializers, widget_args,
                                      widget_ids_this_run, registered>>
                  ELSE /\ new_state' = [new_state EXCEPT ![key] = resolved]
                       /\ written' = [written EXCEPT ![key] = resolved]
                       /\ IF ~WidgetIdAdded(widget_id)
                          THEN /\ last_op' = raise("DuplicateWidgetID")
                               /\ UNCHANGED <<widget_callbacks,
                                              widget_deserializers, widget_args,
                                              widget_ids_this_run, registered>>
                          ELSE /\ widget_ids_this_run' =
                                      widget_ids_this_run \cup {widget_id}
                               /\ registered' = registered \cup {widget_id}
                               /\ register_bookkeeping(widget_id,
                                      DeserializeCheckbox(value), on_change,
                                      args, kwargs)
                               /\ last_op' = [Op("checkbox", key, "", value)
                                                EXCEPT !.proto = proto,
                                                       !.arg = value0,
                                                       !.in_form = in_form]
    /\ UNCHANGED <<coalesceVars, farVars, run_pc, batch, calls, registered_last_run,
                   overwrote>>

\* ------------------------------------------------------------------ button
\* The ButtonProto _button fills (lines 106-111): of the protos above, p1 is
\* the plain button labelled L1 and p3 the form submitter labelled L1.
ButtonProto(label, is_form_submitter) ==
    IF is_form_submitter THEN "p3" ELSE "p1"

\* The closure on_change_handler that _button registers for on_change
\* (lines 113-119).
ButtonHandler(on_change) ==
    CASE on_change = NoCallback -> "on_change_handler(None)"
      [] on_change = "cb1" -> "on_change_handler(cb1)"
      [] on_change = "cb2" -> "on_change_handler(cb2)"

\* Variant of form_usage_error: no test of the form scope.
form_usage_error_Never(in_form, is_form_submitter) == FALSE

\* The form test of _button (lines 96-104): a plain button in a form, or a
\* form submitter outside of one, when the script runs with streamlit.
form_usage_error(in_form, is_form_submitter) ==
    /\ run_pc = "running"
    /\ \/ in_form /\ ~is_form_submitter
       \/ ~in_form /\ is_form_submitter

\* ButtonMixin._button
Button(label, key, is_form_submitter, on_change, args, kwargs, in_form) ==
    /\ run_pc \in {"running", "bare"}
    /\ LET button_proto == ButtonProto(label, is_form_submitter)
           widget_id == GetWidgetId("button", button_proto, key)
           proto == [id |-> widget_id, default |-> PyFalse,
                     value |-> PyNone, valueSet |-> FALSE]
       IN IF form_usage_error(in_form, is_form_submitter)
          THEN /\ last_op' = Op("button", key, "StreamlitAPIException", PyNone)
               /\ UNCHANGED <<storeVars, widget_ids_this_run, registered>>
          ELSE IF EarlyOut(get_report_ctx)
          THEN /\ last_op' = [Op("button", widget_id, "",
                                 Deserialize(DeserializeButton, PyNone))
                                EXCEPT !.proto = proto]
               /\ UNCHANGED <<storeVars, widget_ids_this_run, registered>>
          ELSE IF ~WidgetIdAdded(widget_id)
          THEN /\ last_op' = [Op("button", widget_id, "DuplicateWidgetID", PyNone)
                                EXCEPT !.proto = proto,
                                       !.msg = build_duplicate_widget_message(
                                                    "button", key)]
               /\ UNCHANGED <<storeVars, widget_ids_this_run, registered>>
          ELSE /\ widget_ids_this_run' = widget_ids_this_run \cup {widget_id}
               /\ registered' = registered \cup {widget_id}
               /\ register_bookkeeping(widget_id, DeserializeButton,
                                       ButtonHandler(on_change), args, kwargs)
               /\ UNCHANGED <<widget_states, previous_widget_states>>
               /\ last_op' = [Op("button", widget_id, "",
                                 Deserialize(DeserializeButton,
                                             get_widget_value(widget_id)))
                                EXCEPT !.proto = proto]
    /\ UNCHANGED <<coalesceVars, farVars, sessionVars, run_pc, batch, calls, written,
                   registered_last_run, overwrote>>

\* ------------------------------------------------- coalescing on its own
\* Everything of a session but the position of its script.
SessionFields ==
    /\ widget_states = EmptyStates
    /\ previous_widget_states = EmptyStates
    /\ widget_callbacks = [id \in AllIds |-> NoCallback]
    /\ widget_deserializers = [id \in AllIds |-> NoDeserializer]
    /\ widget_args = [id \in AllIds |-> NoArgs]
    /\ session_state = "None"
    /\ new_state = EmptyDict
    /\ old_state = EmptyDict
    /\ widget_ids_this_run = {}
    /\ batch = <<>>
    /\ calls = <<>>
    /\ written = EmptyDict
    /\ registered = {}
    /\ registered_last_run = {}
    /\ overwrote = FALSE
    /\ last_op = Op("init", NoKey, "", PyNone)
    /\ superseded = FALSE
    /\ other = NewSession

SessionInit == SessionFields /\ run_pc = "idle"

sessionSide == <<storeVars, sessionVars, runVars, obsVars, farVars>>

CoalesceInit ==
    /\ old_states \in Batches
    /\ new_states \in Batches
    /\ coalesced = <<>>
    /\ coalesce_pc = "args"
    /\ folded = <<old_states>>

Coalesce ==
    /\ coalesce_pc = "args"
    /\ coalesced' = coalesce_widget_states(old_states, new_states)
    /\ coalesce_pc' = "done"
    /\ UNCHANGED <<old_states, new_states, folded, sessionSide>>

CoalesceIdle ==
    /\ old_states = <<>>
    /\ new_states = <<>>
    /\ coalesced = <<>>
    /\ coalesce_pc = "idle"
    /\ folded = <<>>

CoalesceSpecInit == CoalesceInit /\ SessionInit

SpecCoalesce == CoalesceSpecInit /\ [][Coalesce]_vars

\* ------------------------------------------- coalesce over several batches
\* Between two runs the batches of the client arrive one after the other;
\* each is merged into what the earlier ones left.
MaxFold == 3       \* batches merged into the first one between two runs

\* The client's records here: k1 as a trigger, True or False, or as the
\* int_value 1, and k2 as a trigger that is True.
FoldStates ==
    {[id |-> "k1", kind |-> "trigger_value", val |-> PyTrue],
     [id |-> "k1", kind |-> "trigger_value", val |-> PyFalse],
     [id |-> "k1", kind |-> "int_value", val |-> PyInt(1)],
     [id |-> "k2", kind |-> "trigger_value", val |-> PyTrue]}

FoldBatches ==
    {b \in UNION {[1..n -> FoldStates] : n \in 0..MaxLen} : DistinctIds(b)}

FoldInit ==
    /\ old_states \in FoldBatches
    /\ new_states \in FoldBatches
    /\ coalesced = <<>>
    /\ coalesce_pc = "args"
    /\ folded = <<old_states>>
    /\ SessionInit

\* The next batch arrives: the merged batch is the old one of the next call.
FoldNext(states) ==
    /\ coalesce_pc = "done"
    /\ Len(folded) < MaxFold
    /\ old_states' = coalesced
    /\ new_states' = states
    /\ folded' = Append(folded, new_states)
    /\ coalesce_pc' = "args"
    /\ UNCHANGED <<coalesced, sessionSide>>

FoldStep ==
    \/ Coalesce
    \/ \E b \in FoldBatches : FoldNext(b)

SpecFold == FoldInit /\ [][FoldStep]_vars

\* ------------------------------------- runs: registration and state writes
\* The client's batches here are empty or hold the int_value 1 for k1.
RunBatches ==
    {b \in Batches : /\ Len(b) <= 1
                     /\ \A i \in 1..Len(b) :
                            b[i] = [id |-> "k1", kind |-> "int_value", val |-> PyInt(1)]}

NoKwargs == EmptyDict

\* The values the script writes here: any for k1, the key that is also
\* registered as a widget, and one for k2.
RunVals(key) == IF key = "k1" THEN Vals ELSE {PyInt(1)}

RunNext ==
    \/ \E b \in RunBatches : SetState(b)
    \/ CallCallbacks
    \/ MakeStateOld
    \/ RunStart
    \/ RunEnd
    \/ \E et \in {"button"}, p \in {"p1"}, key \in {"k1", NoKey} :
            RegisterWidget(et, p, key)
    \/ GetSessionState(NoKwargs)
    \/ \E key \in Ids : \E value \in RunVals(key) : SetItem(key, value)
    \/ \E key \in Ids : \E value \in RunVals(key) : SetAttr(key, value)

RunInit == CoalesceIdle /\ SessionInit

\* The script runs in a session or as a bare Python script.
ScriptInit == CoalesceIdle /\ SessionFields /\ run_pc \in {"idle", "bare"}

SpecRun == RunInit /\ [][RunNext]_vars

\* ------------------------------------------------ runs: widget declarations
DeclareBatches ==
    {<<>>, <<[id |-> "k1", kind |-> "string_value", val |-> PyStr(2)]>>}

DeclareNext ==
    \/ \E b \in DeclareBatches : SetState(b)
    \/ CallCallbacks
    \/ MakeStateOld
    \/ RunStart
    \/ RunEnd
    \/ \E l \in Labels, value \in {PyNone, PyStr(1)}, key \in {"k1"},
          type \in TextInputTypes, on_change \in {NoCallback, "cb1"},
          in_form \in BOOLEAN :
            TextInput(l, value, key, type, on_change, PyNone, PyNone, in_form)

SpecDeclare == ScriptInit /\ [][DeclareNext]_vars

\* ------------------------------------------------ runs: callback dispatch
\* The client's batches here: any record for k1, trigger records for k2.
DispatchBatches ==
    {b \in Batches : \A i \in 1..Len(b) :
            b[i].id = "k2" => b[i].kind = "trigger_value"}

DispatchNext ==
    \/ \E b \in DispatchBatches : SetState(b)
    \/ CallCallbacks
    \/ MakeStateOld
    \/ RunStart
    \/ RunEnd
    \/ \E deserializer \in {Identity, DeserializeButton},
          args \in ArgsChoices, kwargs \in KwargsChoices :
            AddCallback("k1", deserializer, "cb1", args, kwargs)
    \/ AddCallback("k2", DeserializeButton, "cb2", PyNone, PyNone)
    \/ \E deserializer \in {Identity, DeserializeButton} :
            AddDeserializer("k1", deserializer)
    \/ ClearCallbacks

SpecDispatch == RunInit /\ [][DispatchNext]_vars

\* ---------------------------------------------------- runs: Session State
\* The client's batches here: nothing, or one record for k1.
SessionBatches ==
    {b \in Batches : /\ Len(b) <= 1
                     /\ \A i \in 1..Len(b) :
                            /\ b[i].id = "k1"
                            /\ b[i].kind \in {"int_value", "json_value"}
                            /\ b[i].val.v <= 1}

\* get_session_state(**kwargs): the default 1 for any of the user keys.
SessionKwargs ==
    {[k \in StateKeys |-> IF k \in Ids THEN kw[k] ELSE Absent] :
        kw \in [Ids -> {PyInt(1), Absent}]}

SessionNext ==
    \/ \E b \in SessionBatches : SetState(b)
    \/ CallCallbacks
    \/ MakeStateOld
    \/ RunStart
    \/ RunEnd
    \/ \E kw \in SessionKwargs : GetSessionState(kw)
    \/ \E key \in Ids, value \in Vals : SetItem(key, value)
    \/ \E key \in Ids, value \in Vals : SetAttr(key, value)
    \/ \E key \in Ids : DelItem(key)

SpecSession == RunInit /\ [][SessionNext]_vars

\* ------------------------------------------------ runs: the two registrars
\* The client's batches here: nothing, or one record for the generated id of
\* a button with the payload p2.
RegisterBatches ==
    {<<>>} \cup
    {<<WidgetState(HashStr("button", "p2"), pl)>> :
        pl \in {<<"trigger_value", PyTrue>>, <<"int_value", PyInt(1)>>}}

RegisterNext ==
    \/ \E b \in RegisterBatches : SetState(b)
    \/ CallCallbacks
    \/ MakeStateOld
    \/ RunStart
    \/ RunEnd
    \/ \E key \in {"k1", NoKey} : RegisterWidget("button", "p2", key)
    \/ \E et \in ElementTypes, on_change_handler \in {NoCallback, "cb1"} :
            UtilsRegisterWidget(et, "p1", NoKey, on_change_handler,
                                DeserializeButton)
    \/ \E key \in {"k1", NoKey} :
            UtilsRegisterWidget("button", "p2", key, NoCallback, DeserializeButton)

SpecRegister == ScriptInit /\ [][RegisterNext]_vars

\* --------------------------------------------------------- runs: buttons
\* The client's batches here: nothing, or the click of the button k1.
ButtonBatches ==
    {<<>>, <<[id |-> "k1", kind |-> "trigger_value", val |-> PyTrue]>>}

ButtonNext ==
    \/ \E b \in ButtonBatches : SetState(b)
    \/ CallCallbacks
    \/ MakeStateOld
    \/ RunStart
    \/ RunEnd
    \/ \E l \in Labels, key \in {"k1", NoKey}, is_form_submitter \in BOOLEAN,
          on_change \in {NoCallback, "cb1"}, in_form \in BOOLEAN :
            Button(l, key, is_form_submitter, on_change, PyNone, PyNone, in_form)

SpecButton == ScriptInit /\ [][ButtonNext]_vars

\* ------------------------------------------------------ runs: checkboxes
\* The client's batches here: nothing, or the checkbox k1 ticked.
CheckboxBatches ==
    {<<>>, <<[id |-> "k1", kind |-> "trigger_value", val |-> PyTrue]>>}

CheckboxNext ==
    \/ \E b \in CheckboxBatches : SetState(b)
    \/ CallCallbacks
    \/ MakeStateOld
    \/ RunStart
    \/ RunEnd
    \/ \E l \in Labels, value \in {PyNone, PyTrue, PyFalse}, key \in {"k1"},
          on_change \in {NoCallback, "cb1"}, in_form \in BOOLEAN :
            Checkbox(l, value, key, on_change, PyNone, PyNone, in_form)

SpecCheckbox == ScriptInit /\ [][CheckboxNext]_vars

\* --------------------------------------------- runs: declarations in forms
\* A text_input under k1 and a checkbox under k2, in a form or not, with a
\* callback or without.
FormNext ==
    \/ \E b \in DeclareBatches : SetState(b)
    \/ CallCallbacks
    \/ MakeStateOld
    \/ RunStart
    \/ RunEnd
    \/ \E type \in {"default", "password"}, on_change \in {NoCallback, "cb1"},
          in_form \in BOOLEAN :
            TextInput("L1", PyStr(1), "k1", type, on_change, PyNone, PyNone,
                      in_form)
    \/ \E on_change \in {NoCallback, "cb2"}, in_form \in BOOLEAN :
            Checkbox("L1", PyTrue, "k2", on_change, PyNone, PyNone, in_form)

SpecForm == ScriptInit /\ [][FormNext]_vars

\* ------------------------------------------ runs: checkboxes without a key
\* Two checkboxes, labelled L1 and L2, declared without a key.
KeylessNext ==
    \/ \E b \in CheckboxBatches : SetState(b)
    \/ CallCallbacks
    \/ MakeStateOld
    \/ RunStart
    \/ RunEnd
    \/ \E l \in CheckboxLabels, value \in {PyNone, PyTrue, PyFalse} :
            Checkbox(l, value, NoKey, NoCallback, PyNone, PyNone, FALSE)

SpecKeyless == RunInit /\ [][KeylessNext]_vars

\* ----------------------------- runs: Session State writes and declarations
PrecedenceNext ==
    \/ \E b \in DeclareBatches : SetState(b)
    \/ CallCallbacks
    \/ MakeStateOld
    \/ RunStart
    \/ RunEnd
    \/ \E value \in TextValues : SetItem("k1", value)
    \/ \E l \in Labels, value \in {PyNone, PyStr(1)},
          type \in {"default", "other"}, in_form \in BOOLEAN :
            TextInput(l, value, "k1", type, NoCallback, PyNone, PyNone, in_form)

SpecPrecedence == RunInit /\ [][PrecedenceNext]_vars

\* ------------------------- runs: writes in the run and in the callbacks
BoundaryNext ==
    \/ \E b \in DeclareBatches : SetState(b)
    \/ CallCallbacks
    \/ MakeStateOld
    \/ RunStart
    \/ RunEnd
    \/ SetItem("k1", PyStr(1))
    \/ CallbackSetItem("k2", PyInt(1))
    \/ \E l \in Labels, value \in {PyNone, PyStr(1)} :
            TextInput(l, value, "k1", "default", "cb1", PyNone, PyNone, FALSE)

SpecBoundary == RunInit /\ [][BoundaryNext]_vars

\* ------------------------------------------------- runs that are superseded
CancelBatches ==
    {<<>>, <<[id |-> "k1", kind |-> "trigger_value", val |-> PyTrue]>>}

CancelNext ==
    \/ \E b \in CancelBatches : SetState(b)
    \/ CallCallbacks
    \/ MakeStateOld
    \/ RunStart
    \/ RunEnd
    \/ Supersede
    \/ GetSessionState(NoKwargs)
    \/ \E key \in Ids : SetItem(key, PyInt(1))
    \/ \E key \in {"k1", NoKey} : RegisterWidget("button", "p1", key)

SpecCancel == RunInit /\ [][CancelNext]_vars

\* ------------------------------------------------- the store between runs
\* The client's batches here: a trigger value for k1, the int_value 1 for k2,
\* both, or nothing.
StoreStates ==
    {[id |-> "k1", kind |-> "trigger_value", val |-> PyTrue],
     [id |-> "k1", kind |-> "trigger_value", val |-> PyFalse],
     [id |-> "k2", kind |-> "int_value", val |-> PyInt(1)]}

StoreBatches ==
    {b \in UNION {[1..n -> StoreStates] : n \in 0..MaxLen} : DistinctIds(b)}

StoreNext ==
    \/ \E b \in StoreBatches : SetState(b)
    \/ CallCallbacks
    \/ MakeStateOld
    \/ RunStart
    \/ RunEnd
    \/ \E b \in StoreBatches : SetStateCall(b)
    \/ ResetTriggersCall
    \/ \E widget_ids \in SUBSET Ids : CullNonexistent(widget_ids)
    \/ AddCallback("k1", DeserializeButton, "cb1", PyNone, PyNone)
    \/ AddDeserializer("k2", Identity)
    \/ ClearCallbacks

SpecStore == RunInit /\ [][StoreNext]_vars

\* ------------------------------------------------------- a second session
\* Two sessions, A and B. The variables above are session A's structures;
\* the record other holds session B's. Every thread reaches its session's
\* structures through the session id of its ReportContext.
SessionIds == {"A", "B"}

\* Session A's structures, as a record.
ThisSession ==
    [widget_states |-> widget_states,
     previous_widget_states |-> previous_widget_states,
     new_state |-> new_state,
     old_state |-> old_state,
     widget_ids_this_run |-> widget_ids_this_run,
     run_pc |-> run_pc]

\* Variant of get_session_by_id: one session serves every session id.
get_session_by_id_Shared(session_id) == ThisSession

\* Server.get_current().get_session_by_id(ctx.session_id)
get_session_by_id(session_id) ==
    IF session_id = "A" THEN ThisSession ELSE other

\* What an operation for session B leaves alone.
OtherFrame ==
    UNCHANGED <<coalesceVars, storeVars, sessionVars, runVars, calls, written,
                regVars, overwrote, superseded>>

OtherOp(op, key, raised, ret) ==
    [Op(op, key, raised, ret) EXCEPT !.session = "B"]

\* set_state for session B's rerun request.
OtherSetState(states) ==
    LET s == get_session_by_id("B")
    IN /\ s.run_pc = "idle"
       /\ other' = [s EXCEPT !.previous_widget_states = s.widget_states,
                             !.widget_states = StatesById(states),
                             !.run_pc = "set_state"]
       /\ last_op' = OtherOp("set_state", NoKey, "", PyNone)
       /\ OtherFrame

\* make_state_old for session B, then its run starts with a fresh
\* ReportContext.
OtherMakeStateOld ==
    LET s == get_session_by_id("B")
    IN /\ s.run_pc = "set_state"
       /\ other' = [s EXCEPT
              !.old_state = [k \in StateKeys |->
                    IF s.new_state[k] # Absent THEN s.new_state[k]
                    ELSE s.old_state[k]],
              !.new_state = EmptyDict,
              !.widget_ids_this_run = NewWidgetIdsThisRun,
              !.run_pc = "running"]
       /\ last_op' = OtherOp("make_state_old", NoKey, "", PyNone)
       /\ OtherFrame

\* register_widget in session B's run.
OtherRegisterWidget(element_type, element_proto, user_key) ==
    LET s == get_session_by_id("B")
        widget_id == GetWidgetId(element_type, element_proto, user_key)
    IN /\ s.run_pc = "running"
       /\ IF widget_id \in s.widget_ids_this_run
          THEN /\ other' = s
               /\ last_op' = OtherOp("register_widget", widget_id,
                                     "DuplicateWidgetID", PyNone)
          ELSE /\ other' = [s EXCEPT !.widget_ids_this_run = @ \cup {widget_id}]
               /\ last_op' = OtherOp("register_widget", widget_id, "",
                                     GetWidgetValueOf(s.widget_states[widget_id]))
       /\ OtherFrame

\* session_state[key] = value in session B's run.
OtherSetItem(key, value) ==
    LET s == get_session_by_id("B")
    IN /\ s.run_pc = "running"
       /\ IF key \in s.widget_ids_this_run
          THEN /\ other' = s
               /\ last_op' = OtherOp("setitem", key, "StreamlitAPIException",
                                     PyNone)
          ELSE /\ other' = [s EXCEPT !.new_state[key] = value]
               /\ last_op' = OtherOp("setitem", key, "", PyNone)
       /\ OtherFrame

\* Session B's run ends: reset_triggers.
OtherRunEnd ==
    LET s == get_session_by_id("B")
    IN /\ s.run_pc = "running"
       /\ other' = [s EXCEPT
              !.widget_states = [id \in AllIds |->
                    IF s.widget_states[id] # NoState
                          /\ s.widget_states[id].kind # "trigger_value"
                    THEN s.widget_states[id]
                    ELSE NoState],
              !.run_pc = "idle"]
       /\ last_op' = OtherOp("reset_triggers", NoKey, "", PyNone)
       /\ OtherFrame

\* The client of session A sends a trigger for k1 with the int_value 1 for
\* k2, or nothing; the client of session B sends the int_value 2 for k1.
TwoSessionsBatches ==
    {<<>>, <<[id |-> "k1", kind |-> "trigger_value", val |-> PyTrue],
             [id |-> "k2", kind |-> "int_value", val |-> PyInt(1)]>>}

OtherBatches ==
    {<<>>, <<[id |-> "k1", kind |-> "int_value", val |-> PyInt(2)]>>}

TwoSessionsNext ==
    \/ \E b \in TwoSessionsBatches : SetState(b)
    \/ CallCallbacks
    \/ MakeStateOld
    \/ RunStart
    \/ RunEnd
    \/ GetSessionState(NoKwargs)
    \/ SetItem("k2", PyInt(1))
    \/ RegisterWidget("button", "p1", "k1")
    \/ \E b \in OtherBatches : OtherSetState(b)
    \/ OtherMakeStateOld
    \/ OtherRegisterWidget("button", "p1", "k1")
    \/ OtherSetItem("k2", PyInt(2))
    \/ OtherRunEnd

SpecTwoSessions == RunInit /\ [][TwoSessionsNext]_vars

\* ======================================================== the claims
\* The entries of a WidgetStates for one widget id.
EntriesOf(states, id) ==
    {states[i] : i \in {j \in 1..Len(states) : states[j].id = id}}

TriggerTrue(id) == [id |-> id, kind |-> "trigger_value", val |-> PyTrue]

\* C1 (trigger survival): when old_states holds trigger_value True for an id
\* and new_states holds a trigger_value (True or False) for it, the coalesced
\* result holds exactly one entry for the id, trigger_value True.
C1_TriggerSurvival ==
    coalesce_pc = "done" =>
        \A id \in Ids :
            ( /\ TriggerTrue(id) \in EntriesOf(old_states, id)
              /\ \E n \in EntriesOf(new_states, id) : n.kind = "trigger_value" )
            => EntriesOf(coalesced, id) = {TriggerTrue(id)}

C1_Witness ==
    /\ coalesce_pc = "done"
    /\ \E id \in Ids :
        /\ TriggerTrue(id) \in EntriesOf(old_states, id)
        /\ [id |-> id, kind |-> "trigger_value", val |-> PyFalse]
                \in EntriesOf(new_states, id)
        /\ EntriesOf(coalesced, id) = {TriggerTrue(id)}

\* C2 (no resurrection across a kind change): when old_states holds
\* trigger_value True for an id and new_states holds the id with another kind,
\* the coalesced result holds new_states' entry for it, kind and value unchanged.
C2_NoResurrection ==
    coalesce_pc = "done" =>
        \A id \in Ids :
            ( /\ TriggerTrue(id) \in EntriesOf(old_states, id)
              /\ \E n \in EntriesOf(new_states, id) : n.kind # "trigger_value" )
            => EntriesOf(coalesced, id) = EntriesOf(new_states, id)

C2_Witness ==
    /\ coalesce_pc = "done"
    /\ \E id \in Ids :
        /\ TriggerTrue(id) \in EntriesOf(old_states, id)
        /\ [id |-> id, kind |-> "int_value", val |-> PyInt(1)]
                \in EntriesOf(new_states, id)
        /\ EntriesOf(coalesced, id) =
                {[id |-> id, kind |-> "int_value", val |-> PyInt(1)]}

C5_WriteConflict ==
    [][\A key \in Ids, value \in Vals :
          (SetItem(key, value) \/ SetAttr(key, value)) =>
              IF key \in registered
              THEN /\ last_op'.raised = "StreamlitAPIException"
                   /\ new_state' = new_state
                   /\ old_state' = old_state
              ELSE /\ last_op'.raised = ""
                   /\ new_state'[key] = value
                   /\ old_state' = old_state]_vars

\* An attribute assignment was refused for a registered widget id that holds
\* a value written before its registration.
C5_Witness ==
    /\ last_op.op = "setattr"
    /\ last_op.raised = "StreamlitAPIException"
    /\ last_op.key \in registered
    /\ new_state[last_op.key] # Absent

\* The invocations of the callbacks of one widget id among cs.
InvocationsOf(cs, id) == {j \in 1..Len(cs) : cs[j].id = id}

\* A widget value as the deserializer registered for id decodes it.
DecodedVia(id, ui_value) ==
    IF widget_deserializers[id] = NoDeserializer THEN ui_value
    ELSE Deserialize(widget_deserializers[id], ui_value)

C7_PromoteRoundTrip ==
    [][(MakeStateOld /\ session_state # "None") =>
        /\ \A k \in AllIds :
            /\ written[k] # Absent => old_state'[k] = written[k]
            /\ written[k] = Absent => old_state'[k] = old_state[k]
            /\ ~(is_new_value(k))'
        /\ new_state' = EmptyDict]_vars

\* A make_state_old has just replaced an older committed value by the pending
\* one: nothing is pending, k1 reads 2 from _old_state and is not new.
C7_Witness ==
    /\ run_pc = "promoted"
    /\ session_state # "None"
    /\ overwrote
    /\ new_state = EmptyDict
    /\ get_old_value("k1") = PyInt(2)
    /\ ~is_new_value("k1")

\* The value a widget holds in the store, as Session State reads it.
LiveValue(k) ==
    IF widget_deserializers[k] = NoDeserializer THEN get_widget_value(k)
    ELSE Deserialize(widget_deserializers[k], get_widget_value(k))

\* The read that the precedence "pending, then widget-live, then committed,
\* first hit wins" prescribes for a key.
FirstHit(k) ==
    IF written[k] # Absent THEN written[k]
    ELSE IF widget_states[k] # NoState THEN LiveValue(k)
    ELSE IF old_state[k] # Absent THEN old_state[k]
    ELSE KeyError

\* C8 (read precedence): for every key, __getitem__ and get return the
\* pending value if the key was written, otherwise the live widget value if
\* the store holds a record for the key, otherwise the committed value, and
\* iteration and length cover exactly the keys that are not missing from all
\* three.
C8_ReadPrecedence ==
    session_state # "None" =>
        /\ \A k \in AllIds :
            /\ SessionState_getitem(k) = FirstHit(k)
            /\ \A default \in {PyNone, PyInt(1)} :
                SessionState_get(k, default) =
                    (IF FirstHit(k) = KeyError THEN default ELSE FirstHit(k))
            /\ k \in SessionState_iter <=> FirstHit(k) # KeyError
        /\ SessionState_len = Cardinality({k \in AllIds : FirstHit(k) # KeyError})

\* C9 (is_new_value): is_new_value(key) holds exactly for the keys with a
\* write since the last make_state_old; a key that only _old_state or only the
\* widget store holds is not new.
C9_IsNewValue ==
    \A k \in AllIds :
        /\ is_new_value(k) <=> written[k] # Absent
        /\ (written[k] = Absent /\ (old_state[k] # Absent \/ widget_states[k] # NoState))
                => ~is_new_value(k)

\* k1 is held by the store and by _old_state and is not new, while k2 was
\* written in this run and is new.
C9_Witness ==
    /\ run_pc = "running"
    /\ widget_states["k1"] # NoState
    /\ old_state["k1"] # Absent
    /\ ~is_new_value("k1")
    /\ written["k2"] # Absent
    /\ is_new_value("k2")

\* C10 (defaults never overwrite): get_session_state(**kwargs) creates the
\* SessionState only when the session has none; every key that was readable
\* before the call reads the same value after it, a default key that was not
\* readable reads its default, and nothing else becomes readable.
C10_DefaultsNeverOverwrite ==
    [][\A kw \in SessionKwargs :
        GetSessionState(kw) =>
            /\ session_state' = "SessionState"
            /\ session_state # "None" => old_state' = old_state
            /\ \A k \in AllIds :
                (SessionState_getitem(k))' =
                    (IF SessionState_getitem(k) # KeyError THEN SessionState_getitem(k)
                     ELSE IF kw[k] # Absent THEN kw[k]
                     ELSE KeyError)]_vars

\* A run after the one that set k1 to 2: get_session_state was called with
\* the default 1 for k1 and for k2; k1 still reads 2 from _old_state and k2,
\* which was missing, reads the default.
C10_Witness ==
    /\ last_op.op = "get_session_state"
    /\ old_state["k1"] = PyInt(2)
    /\ new_state["k1"] = Absent
    /\ SessionState_getitem("k1") = PyInt(2)
    /\ old_state["k2"] = Absent
    /\ new_state["k2"] = PyInt(1)

\* The id elements.utils.register_widget computes for a declaration.
UtilsWidgetId(element_type, element_proto, user_key) ==
    GetWidgetId(element_type, element_proto, UtilsKey(element_proto, user_key))

\* C11 (identity determinism): for a widget registered with no user key the
\* id is a function of the kind and the payload alone, and an injective one:
\* a declaration of the same kind and payload gets the id just computed, a
\* declaration that differs in kind or in payload gets another id.
C11_IdentityDeterminism ==
    [][\A et \in ElementTypes, p \in Protos,
          on_change_handler \in Callbacks \cup {NoCallback} :
          UtilsRegisterWidget(et, p, NoKey, on_change_handler, DeserializeButton)
          => \A et2 \in ElementTypes, p2 \in Protos :
                (UtilsWidgetId(et2, p2, NoKey) = last_op'.proto.id)
                    <=> (et2 = et /\ p2 = p)]_vars

C15_RegisterReturnsStoreValue ==
    [][\A et \in ElementTypes, p \in Protos, key \in Ids \cup {NoKey},
          on_change_handler \in Callbacks \cup {NoCallback},
          deserializer \in {Identity, DeserializeButton} :
          /\ (RegisterWidget(et, p, key) /\ run_pc = "running"
                    /\ last_op'.raised = "")
                => last_op'.ret = GetWidgetValueOf(widget_states[GetWidgetId(et, p, key)])
          /\ (UtilsRegisterWidget(et, p, key, on_change_handler, deserializer)
                    /\ run_pc = "running" /\ last_op'.raised = "")
                => last_op'.ret =
                      Deserialize(deserializer,
                          GetWidgetValueOf(widget_states[UtilsWidgetId(et, p, key)]))]_vars

\* A registration through deserialize_button returned the trigger value True
\* that the store holds for the generated id, which the run before did not
\* hold.
C15_Witness ==
    /\ run_pc = "running"
    /\ last_op.op = "utils.register_widget"
    /\ last_op.raised = ""
    /\ last_op.key = HashStr("button", "p2")
    /\ widget_states[last_op.key] =
            [id |-> last_op.key, kind |-> "trigger_value", val |-> PyTrue]
    /\ previous_widget_states[last_op.key] = NoState
    /\ last_op.ret = PyTrue

\* C16 (the two DuplicateWidgetID messages): a DuplicateWidgetID raised for a
\* declaration with a user key carries the text that names that key and asks
\* for a unique key; one raised for a declaration without a user key carries
\* the text about a shared generated key that asks for a key argument.
C16_DuplicateMessage ==
    [][\A et \in ElementTypes, p \in Protos, key \in Ids \cup {NoKey},
          on_change_handler \in Callbacks \cup {NoCallback},
          deserializer \in {Identity, DeserializeButton} :
          ( /\ \/ RegisterWidget(et, p, key)
               \/ UtilsRegisterWidget(et, p, key, on_change_handler, deserializer)
            /\ last_op'.raised = "DuplicateWidgetID" )
          => /\ last_op'.msg.widget_type = et
             /\ IF key # NoKey
                THEN /\ last_op'.msg.text =
                          "multiple identical widgets with key: make the key argument unique"
                     /\ last_op'.msg.user_key = key
                ELSE /\ last_op'.msg.text =
                          "multiple identical widgets with the same generated key: pass a unique key argument"
                     /\ last_op'.msg.user_key = NoKey]_vars

\* A second registration with the user key k1 raised DuplicateWidgetID with
\* the text that names k1.
C16_Witness ==
    /\ last_op.raised = "DuplicateWidgetID"
    /\ last_op.key = "k1"
    /\ last_op.msg.user_key = "k1"
    /\ last_op.msg.text =
            "multiple identical widgets with key: make the key argument unique"

\* C14 (declarations in a bare script): without a context, text_input with a
\* caller-supplied default raises nothing and returns that default.
C14_TextInputNonInteractive ==
    [][\A l \in Labels, key \in Ids \cup {NoKey}, value \in TextValues,
          on_change \in Callbacks \cup {NoCallback}, in_form \in BOOLEAN :
          (TextInput(l, value, key, "default", on_change, PyNone, PyNone, in_form)
                /\ run_pc = "bare")
          => /\ last_op'.raised = ""
             /\ last_op'.ret = value]_vars

\* C17 (form buffering): a text_input declared in a form with a caller-
\* supplied default, for a key that has no live widget value and is not
\* pending, returns that default and leaves the key out of the pending
\* generation (is_new_value stays false).
C17_FormBuffering ==
    [][\A l \in Labels, key \in Ids \cup {NoKey}, value \in TextValues,
          type \in TextInputTypes :
          LET k == IF key = NoKey THEN InternalTextInputKey(l) ELSE key
          IN ( /\ TextInput(l, value, key, type, NoCallback, PyNone, PyNone, TRUE)
               /\ run_pc = "running"
               /\ last_op'.raised = ""
               /\ beta_widget_value(k) = PyNone
               /\ ~is_new_value(k) )
             => /\ last_op'.ret = value
                /\ new_state'[k] = Absent]_vars

\* The value Session State holds for a key: pending, else live, else
\* committed; None when no tier holds one.
HeldValue(key) ==
    IF new_state[key] # Absent THEN new_state[key]
    ELSE IF beta_widget_value(key) # PyNone THEN beta_widget_value(key)
    ELSE IF old_state[key] # Absent THEN old_state[key]
    ELSE PyNone

C18_FormUsage ==
    [][\A l \in Labels, key \in Ids \cup {NoKey}, is_form_submitter \in BOOLEAN,
          on_change \in Callbacks \cup {NoCallback}, in_form \in BOOLEAN :
          ( /\ Button(l, key, is_form_submitter, on_change, PyNone, PyNone, in_form)
            /\ run_pc = "running" )
          => IF in_form # is_form_submitter
             THEN /\ last_op'.raised = "StreamlitAPIException"
                  /\ UNCHANGED <<storeVars, widget_ids_this_run, registered>>
             ELSE last_op'.raised # "StreamlitAPIException"]_vars

\* A button declaration failed on the form test in a run that has registered
\* nothing.
C18_Witness ==
    /\ run_pc = "running"
    /\ last_op.op = "button"
    /\ last_op.raised = "StreamlitAPIException"
    /\ widget_ids_this_run = {}
    /\ widget_callbacks = [id \in AllIds |-> NoCallback]

\* The source text_input resolves its value from (text_widgets.py 96-110),
\* with the widget kind's own built-in default.
ResolveAsTextInput(key, value, in_form, default) ==
    IF in_form
    THEN IF beta_widget_value(key) # PyNone THEN beta_widget_value(key)
         ELSE IF value # PyNone THEN value ELSE default
    ELSE IF HeldValue(key) # PyNone THEN HeldValue(key)
         ELSE IF value # PyNone THEN value ELSE default

\* C20 (one precedence policy for every widget kind): in the same situation
\* checkbox, radio and color_picker resolve their value from the source
\* text_input resolves it from; in particular outside a form, when Session
\* State holds a value for the key, none of them takes the caller's value.
C20_SamePrecedence ==
    [][\A l \in Labels, key \in Ids, value \in {PyNone, PyTrue, PyFalse},
          on_change \in Callbacks \cup {NoCallback}, in_form \in BOOLEAN :
          ( /\ Checkbox(l, value, key, on_change, PyNone, PyNone, in_form)
            /\ run_pc = "running"
            /\ last_op'.raised = "" )
          => /\ last_op'.ret =
                    PyBoolOf(ResolveAsTextInput(key, value, in_form, PyFalse))
             /\ radio_value(key, value, PyInt(1)) =
                    ResolveAsTextInput(key, value, in_form, PyInt(1))
             /\ color_picker_value(key, value, PyStr(1)) =
                    ResolveAsTextInput(key, value, in_form, PyStr(1))]_vars

\* The ids of a WidgetStates.
IdsOf(states) == {states[i].id : i \in 1..Len(states)}

\* C27 (coalesce carries the new batch through): the coalesced result holds
\* exactly the ids of new_states, each once; an id that only old_states holds
\* is not in it, trigger_value True or not; every entry but that of a trigger
\* whose old value was True is new_states' entry, kind and value; old_states
\* and new_states are never changed.
C27_CarriesNewBatch ==
    /\ [](coalesce_pc = "done" =>
            /\ IdsOf(coalesced) = IdsOf(new_states)
            /\ DistinctIds(coalesced)
            /\ \A i \in 1..Len(coalesced) :
                  \/ coalesced[i] \in EntriesOf(new_states, coalesced[i].id)
                  \/ /\ coalesced[i] = TriggerTrue(coalesced[i].id)
                     /\ TriggerTrue(coalesced[i].id) \in
                            EntriesOf(old_states, coalesced[i].id)
                     /\ \E n \in EntriesOf(new_states, coalesced[i].id) :
                            n.kind = "trigger_value")
    /\ [][Coalesce => UNCHANGED <<old_states, new_states>>]_vars

\* old_states held trigger_value True for an id that new_states does not
\* hold; the coalesced result holds new_states' one entry and not that id.
C27_Witness ==
    /\ coalesce_pc = "done"
    /\ Len(new_states) = 1
    /\ new_states[1].kind = "int_value"
    /\ coalesced = new_states
    /\ \E id \in Ids \ IdsOf(new_states) :
            TriggerTrue(id) \in EntriesOf(old_states, id)

\* The value a WidgetStates holds for an id, None when it has no entry.
ValueIn(states, id) ==
    IF EntriesOf(states, id) = {} THEN PyNone
    ELSE GetWidgetValueOf(CHOOSE e \in EntriesOf(states, id) : TRUE)

\* C28 (set_state shifts the generations): set_state(new) makes
\* _previous_widget_states what _widget_states was and _widget_states exactly
\* the entries of new by id; after set_state(b1) directly followed by
\* set_state(b2), get_previous_widget_value reads b1's value and
\* get_widget_value b2's, None where the batch has no entry; no other
\* operation changes _previous_widget_states.
C28_GenerationShift ==
    [][/\ \A b \in StoreBatches :
            (SetState(b) \/ SetStateCall(b)) =>
                /\ previous_widget_states' = widget_states
                /\ \A id \in AllIds :
                      /\ EntriesOf(b, id) = {} => widget_states'[id] = NoState
                      /\ EntriesOf(b, id) # {} =>
                            EntriesOf(b, id) = {widget_states'[id]}
                /\ last_op.op = "set_state" =>
                      \A id \in Ids :
                          /\ get_previous_widget_value(id)' = ValueIn(batch, id)
                          /\ get_widget_value(id)' = ValueIn(b, id)
       /\ last_op'.op # "set_state" =>
              previous_widget_states' = previous_widget_states]_vars

\* set_state with k1's trigger True followed directly by set_state with k2's
\* int_value 1: the previous generation holds only k1, the current only k2.
C28_Witness ==
    /\ last_op.op = "set_state"
    /\ previous_widget_states["k1"] = TriggerTrue("k1")
    /\ previous_widget_states["k2"] = NoState
    /\ widget_states["k1"] = NoState
    /\ get_widget_value("k2") = PyInt(1)

\* C29 (reset_triggers): reset_triggers takes every trigger_value entry, True
\* or False, out of _widget_states and keeps every other entry as it is;
\* _previous_widget_states, the callbacks, deserializers and args stay; and
\* no operation but set_state brings a trigger entry back.
C29_ResetTriggers ==
    [][/\ (RunEnd \/ ResetTriggersCall) =>
            /\ \A id \in AllIds :
                  widget_states'[id] =
                      IF widget_states[id] # NoState
                           /\ widget_states[id].kind = "trigger_value"
                      THEN NoState ELSE widget_states[id]
            /\ UNCHANGED <<previous_widget_states, widget_callbacks,
                           widget_deserializers, widget_args>>
       /\ last_op'.op # "set_state" =>
              \A id \in AllIds :
                  (widget_states'[id] # NoState
                        /\ widget_states'[id].kind = "trigger_value")
                    => widget_states'[id] = widget_states[id]]_vars

\* reset_triggers has taken k1's trigger True out and left k2's int_value.
C29_Witness ==
    /\ last_op.op = "reset_triggers"
    /\ previous_widget_states["k1"] = TriggerTrue("k1")
    /\ widget_states["k1"] = NoState
    /\ get_widget_value("k1") = PyNone
    /\ get_widget_value("k2") = PyInt(1)
    /\ widget_callbacks["k1"] = "cb1"

\* C30 (cull): cull_nonexistent(widget_ids) returns, and _widget_states then
\* holds exactly its former entries with an id in widget_ids, unchanged.
C30_Cull ==
    [][\A widget_ids \in SUBSET Ids :
          CullNonexistent(widget_ids) =>
              /\ last_op'.raised = ""
              /\ widget_states' =
                    [id \in AllIds |-> IF id \in widget_ids
                                       THEN widget_states[id] ELSE NoState]]_vars

C22_ForceSetValue ==
    [][\A l \in Labels, key \in Ids \cup {NoKey},
          value \in TextValues \cup {PyNone}, type \in TextInputTypes,
          on_change \in Callbacks \cup {NoCallback}, in_form \in BOOLEAN :
          ( /\ TextInput(l, value, key, type, on_change, PyNone, PyNone, in_form)
            /\ run_pc = "running"
            /\ last_op'.raised = "" )
          => /\ last_op'.proto.valueSet = (value # PyNone /\ ~in_form)
             /\ last_op'.proto.valueSet => last_op'.proto.value = last_op'.ret
             /\ ~last_op'.proto.valueSet => last_op'.proto.value = PyNone]_vars

NextStep ==
    {<<"idle", "set_state">>, <<"set_state", "callbacks">>,
     <<"callbacks", "promoted">>, <<"promoted", "running">>,
     <<"running", "idle">>}

Fires(e) ==
    /\ widget_callbacks[e.id] # NoCallback
    /\ ~PyEq(DecodedVia(e.id, GetWidgetValueOf(e)),
             DecodedVia(e.id, GetWidgetValueOf(previous_widget_states[e.id])))

\* C31: call_callbacks takes the entries of the batch in their order: of two
\* entries that both changed, the callback of the earlier one is invoked
\* first, and an entry without a callback invokes nothing. The dispatch is
\* over before the run starts: while the run is prepared or in progress the
\* request's batch has been dispatched and no further callback is invoked.
C31_DispatchOrder ==
    /\ [][CallCallbacks =>
            /\ \A i, j \in 1..Len(batch) :
                  (i < j /\ Fires(batch[i]) /\ Fires(batch[j])) =>
                      \A a \in InvocationsOf(calls', batch[i].id),
                         b \in InvocationsOf(calls', batch[j].id) : a < b
            /\ \A i \in 1..Len(batch) :
                  /\ Fires(batch[i]) => InvocationsOf(calls', batch[i].id) # {}
                  /\ widget_callbacks[batch[i].id] = NoCallback =>
                        InvocationsOf(calls', batch[i].id) = {}]_vars
    /\ [](run_pc \in {"promoted", "running"} => batch = <<>>)
    /\ [][(run_pc \in {"callbacks", "promoted", "running"}) =>
              UNCHANGED calls]_vars

\* Both widgets changed in one batch that lists k2 before k1, and the run
\* started after cb2 and then cb1 had been invoked.
C31_Witness ==
    /\ run_pc = "running"
    /\ Len(calls) = 2
    /\ calls[1].id = "k2" /\ calls[1].callback = "cb2"
    /\ calls[2].id = "k1" /\ calls[2].callback = "cb1"

\* C39: del session_state[k] is all-or-nothing: it either returns, and then
\* k is in neither generation, or it raises KeyError, and then both
\* generations are as they were before the call.
C39_DeleteAllOrNothing ==
    [][\A key \in Ids : DelItem(key) =>
            IF last_op'.raised = ""
            THEN new_state'[key] = Absent /\ old_state'[key] = Absent
            ELSE /\ last_op'.raised = "KeyError"
                 /\ UNCHANGED <<new_state, old_state>>]_vars

\* C35: add_deserializer(id, d) sets the deserializer of id and leaves every
\* callback and every captured args entry as it was; clear_callbacks empties
\* the callbacks and leaves deserializers and captured args; add_callback
\* replaces the callback, deserializer and args of its id and of no other.
\* So a callback registered in an earlier run is still the one dispatch
\* invokes for a changed value after a registration without a callback.
C35_RegistrationsPersist ==
    [][/\ \A d \in {Identity, DeserializeButton} : AddDeserializer("k1", d) =>
              /\ widget_deserializers' =
                    [widget_deserializers EXCEPT !["k1"] = d]
              /\ UNCHANGED <<widget_callbacks, widget_args>>
       /\ ClearCallbacks =>
              /\ \A id \in AllIds : widget_callbacks'[id] = NoCallback
              /\ UNCHANGED <<widget_deserializers, widget_args>>
       /\ AddCallback("k2", DeserializeButton, "cb2", PyNone, PyNone) =>
              /\ widget_callbacks' = [widget_callbacks EXCEPT !["k2"] = "cb2"]
              /\ widget_deserializers' =
                    [widget_deserializers EXCEPT !["k2"] = DeserializeButton]
              /\ widget_args' =
                    [widget_args EXCEPT !["k2"] = Args(PyNone, PyNone)]
       /\ CallCallbacks =>
              \A i \in 1..Len(batch) : Fires(batch[i]) =>
                  \E j \in InvocationsOf(calls', batch[i].id) :
                      calls'[j].callback = widget_callbacks[batch[i].id]]_vars

\* k1 was registered with a deserializer only in a run whose request had
\* cb1 invoked for k1, so cb1 was registered in an earlier run; cb1 and its
\* captured tuple are still in the store.
C35_Witness ==
    /\ run_pc = "running"
    /\ last_op.op = "add_deserializer"
    /\ last_op.key = "k1"
    /\ \E j \in InvocationsOf(calls, "k1") : calls[j].callback = "cb1"
    /\ widget_callbacks["k1"] = "cb1"
    /\ widget_args["k1"] = Args(PyTuple(1), PyNone)

\* C32: for a widget without a previous record, equivalent_values compares
\* the new value with the value of an unset widget, both through the
\* registered deserializer, and raw when none is registered; so the first
\* record of a widget invokes its callback exactly when it decodes to
\* something else than the deserializer makes of None.
C32_FirstAppearance ==
    /\ [](\A e \in WidgetStateSet :
            previous_widget_states[e.id] = NoState =>
                LET d == widget_deserializers[e.id]
                    v == GetWidgetValueOf(e)
                IN equivalent_values(e) <=>
                      IF d = NoDeserializer THEN PyEq(v, PyNone)
                      ELSE PyEq(Deserialize(d, v), Deserialize(d, PyNone)))
    /\ [][CallCallbacks =>
            \A i \in 1..Len(batch) :
                LET e == batch[i]
                    d == widget_deserializers[e.id]
                IN ( /\ previous_widget_states[e.id] = NoState
                     /\ widget_callbacks[e.id] # NoCallback ) =>
                        ( InvocationsOf(calls', e.id) # {} <=>
                            ~PyEq(Deserialize(d, GetWidgetValueOf(e)),
                                  Deserialize(d, PyNone)) )]_vars

\* The first records of two buttons with callbacks were dispatched: k1's
\* trigger_value False decodes to the default and invoked nothing, k2's
\* trigger_value True invoked cb2.
C32_Witness ==
    /\ run_pc = "callbacks"
    /\ previous_widget_states["k1"] = NoState
    /\ previous_widget_states["k2"] = NoState
    /\ widget_states["k1"] = [id |-> "k1", kind |-> "trigger_value", val |-> PyFalse]
    /\ widget_states["k2"] = TriggerTrue("k2")
    /\ widget_callbacks["k1"] = "cb1"
    /\ widget_deserializers["k1"] = DeserializeButton
    /\ InvocationsOf(calls, "k1") = {}
    /\ InvocationsOf(calls, "k2") # {}

\* Whether a batch holds trigger_value True for an id, and whether it holds
\* the id with a trigger_value at all.
HoldsClick(states, id) == TriggerTrue(id) \in EntriesOf(states, id)
HoldsTrigger(states, id) ==
    \E e \in EntriesOf(states, id) : e.kind = "trigger_value"

\* C33: the batches b0, ..., bn that arrive between two runs are merged left
\* to right. The merged batch holds trigger_value True for an id exactly
\* when some bi holds it and every later batch holds the id as a trigger: a
\* click survives any number of later snapshots, and is not carried past a
\* batch that omits the id or holds it with another kind.
C33_ClickSurvivesFold ==
    coalesce_pc = "done" =>
        LET bs == Append(folded, new_states)
        IN \A id \in Ids :
              HoldsClick(coalesced, id) <=>
                  \E i \in 1..Len(bs) :
                      /\ HoldsClick(bs[i], id)
                      /\ \A j \in (i + 1)..Len(bs) : HoldsTrigger(bs[j], id)

\* Four batches were merged: the first holds the click on k1, the next three
\* hold k1 as trigger_value False, and the merged batch holds the click.
C33_Witness ==
    /\ coalesce_pc = "done"
    /\ Len(folded) = 3
    /\ HoldsClick(folded[1], "k1")
    /\ \A j \in 2..3 : folded[j] =
            <<[id |-> "k1", kind |-> "trigger_value", val |-> PyFalse]>>
    /\ new_states = <<[id |-> "k1", kind |-> "trigger_value", val |-> PyFalse]>>
    /\ HoldsClick(coalesced, "k1")

\* C34: in the cycle set_state, call_callbacks, run, reset_triggers, a trigger
\* widget with a callback and the deserializer of a button (None decodes to
\* False) has its callback invoked once in a cycle whose batch holds
\* trigger_value True for it and not at all in a cycle whose batch holds
\* trigger_value False for it or omits it. The batch of the cycle before
\* does not matter: when a request is handled the previous generation holds
\* no trigger, so that a click that follows a click fires again.
C34_OneFirePerClick ==
    /\ [][( /\ CallCallbacks
            /\ widget_callbacks["k2"] = "cb2"
            /\ widget_deserializers["k2"] = DeserializeButton )
          => Cardinality(InvocationsOf(calls', "k2")) =
                IF HoldsClick(batch, "k2") THEN 1 ELSE 0]_vars
    /\ [](run_pc \in {"idle", "set_state"} =>
            \A id \in AllIds :
                /\ previous_widget_states[id].kind # "trigger_value"
                /\ run_pc = "idle" => widget_states[id].kind # "trigger_value")

\* The click on k2 invoked cb2 once, after an earlier request whose record
\* for k1 is the previous generation.
C34_Witness ==
    /\ run_pc = "callbacks"
    /\ widget_states["k2"] = TriggerTrue("k2")
    /\ widget_deserializers["k2"] = DeserializeButton
    /\ Cardinality(InvocationsOf(calls, "k2")) = 1
    /\ \E j \in InvocationsOf(calls, "k2") : calls[j].callback = "cb2"
    /\ previous_widget_states["k1"] # NoState

C36_NoHalfRegistered ==
    [][( /\ last_op'.op \in {"register_widget", "utils.register_widget"}
         /\ last_op'.raised = "DuplicateWidgetID"
         /\ last_op' # last_op )
       => /\ UNCHANGED <<widget_callbacks, widget_deserializers, widget_args>>
          /\ UNCHANGED <<widget_states, previous_widget_states>>
          /\ UNCHANGED widget_ids_this_run]_vars

\* The second declaration under the label L1 was refused; the store holds
\* what the first one registered, a deserializer and no callback.
C36_Witness ==
    /\ last_op.op = "utils.register_widget"
    /\ last_op.raised = "DuplicateWidgetID"
    /\ last_op.key = "L1"
    /\ "L1" \in widget_ids_this_run
    /\ widget_deserializers["L1"] = DeserializeButton
    /\ widget_callbacks["L1"] = NoCallback

\* C38: two checkboxes with different labels and no key, declared in one
\* run, resolve their values independently. In the first run of a session,
\* where nothing is held for either, the one declared second returns the
\* value its caller passed, False when that is None, whatever the first was
\* given; and it writes under no Session State key the first has written.
C38_KeylessIndependent ==
    [][\A l \in CheckboxLabels, value \in {PyNone, PyTrue, PyFalse} :
        ( /\ Checkbox(l, value, NoKey, NoCallback, PyNone, PyNone, FALSE)
          /\ run_pc = "running"
          /\ old_state = EmptyDict
          /\ HashStr("checkbox", l) \notin widget_ids_this_run
          /\ \E m \in CheckboxLabels \ {l} :
                HashStr("checkbox", m) \in widget_ids_this_run )
        => /\ last_op'.raised = ""
           /\ last_op'.ret = (IF value # PyNone THEN value ELSE PyFalse)
           /\ \A k \in StateKeys :
                 written[k] # Absent => new_state'[k] = new_state[k]]_vars

====
